---------------------------- MODULE Spec2Model ----------------------------
(***************************************************************************)
(* The message-formatting entity codec of telethon/extensions:             *)
(*   markdown.py   parse / unparse            (Markdown dialect)           *)
(*   markdown2.py  HTMLParser.parse / unparse (HTML dialect)               *)
(*                 MarkdownV2.parse           (quote shorthand + toggles)  *)
(* and, in the sections at the end of the module,                          *)
(*   sessions/asqlite.py       AsyncSQLite: sessions and entities tables   *)
(*   extensions/binaryreader.py  BinaryReader.tgread_object                *)
(*   client/extras.py          ExtraMethods.transcribe                     *)
(*                                                                         *)
(* A string is a sequence of units.  A unit is a one-character TLA+ string *)
(* or one of four named units: HI and LO, the two UTF-16 code units of a   *)
(* surrogate pair, ASTRAL, the single host character (a codepoint          *)
(* >= 0x10000) that the pair encodes, and BT, the back-tick character      *)
(* (which a TLA+ string cannot hold).  Positions are 0-based as in the     *)
(* source.                                                                 *)
(***************************************************************************)
EXTENDS Integers, Sequences, FiniteSets, TLC

VARIABLES
    pc,        \* which call is active and where it stands
    arg,       \* the argument(s) the active call was given
    message,   \* markdown.parse: the working text (surrogate form)
    i,         \* markdown.parse: the scan cursor
    result,    \* markdown.parse: the entities recorded so far
    hp,        \* HTMLParserHelper instance: text, entities, tag_entities, rest of the feed
    ret,       \* what the last finished call returned (or raised)
    session,   \* AsyncSQLite instance: the fields its properties read
    database,  \* the session file: its sessions row and its entities rows
    reader,    \* BinaryReader instance: stream, position
    client     \* TelegramClient: the update handlers, the transcribe calls

vars == <<pc, arg, message, i, result, hp, ret, session, database, reader,
          client>>

\* What the calls of the entity codec leave alone.
others == <<session, database, reader, client>>

-----------------------------------------------------------------------------
(* Units *)

HI == "HI"
LO == "LO"
ASTRAL == "ASTRAL"
BT == "BT"

Whitespace == {" ", "\n"}

\* A Python slice index: a negative one counts from the end, and both ends
\* are clamped to the string.
SliceIndex(s, a) ==
    LET b == IF a < 0 THEN Len(s) + a ELSE a
    IN  IF b < 0 THEN 0 ELSE IF b > Len(s) THEN Len(s) ELSE b

\* Python s[a:b]
Slice(s, a, b) ==
    LET lo == SliceIndex(s, a)
        hi == SliceIndex(s, b)
    IN  IF hi <= lo THEN <<>> ELSE SubSeq(s, lo + 1, hi)

\* Python s[a:]
From(s, a) ==
    LET lo == SliceIndex(s, a)
    IN  IF Len(s) <= lo THEN <<>> ELSE SubSeq(s, lo + 1, Len(s))

\* Python s.startswith(sub, pos)
StartsAt(s, sub, pos) ==
    /\ pos >= 0
    /\ pos + Len(sub) <= Len(s)
    /\ \A k \in 1..Len(sub) : s[pos + k] = sub[k]

\* Python s.find(sub, start, stop): the lowest index in [start, stop - len(sub)]
\* at which sub occurs, -1 when there is none.
FindIn(s, sub, start, stop) ==
    LET hi == IF stop > Len(s) THEN Len(s) ELSE stop
        hits == {p \in start..(hi - Len(sub)) : StartsAt(s, sub, p)}
    IN  IF hits = {} THEN -1 ELSE CHOOSE p \in hits : \A q \in hits : p <= q

\* Python s.find(sub, start)
Find(s, sub, start) == FindIn(s, sub, start, Len(s))

RECURSIVE Concat(_)
\* "".join(parts)
Concat(parts) ==
    IF parts = <<>> THEN <<>> ELSE Head(parts) \o Concat(Tail(parts))

\* Python s.lstrip() / s.rstrip() / s.strip()
RECURSIVE lstrip(_)
lstrip(s) ==
    IF s # <<>> /\ Head(s) \in Whitespace THEN lstrip(Tail(s)) ELSE s

RECURSIVE rstrip(_)
rstrip(s) ==
    IF s # <<>> /\ s[Len(s)] \in Whitespace
    THEN rstrip(SubSeq(s, 1, Len(s) - 1)) ELSE s

strip(s) == rstrip(lstrip(s))

-----------------------------------------------------------------------------
(* helpers.add_surrogate / del_surrogate / within_surrogate / strip_text   *)

RECURSIVE add_surrogate_low_first(_)
\* add_surrogate that writes the two units of a pair low unit first.
add_surrogate_low_first(text) ==
    IF text = <<>> THEN <<>>
    ELSE (IF Head(text) = ASTRAL THEN <<LO, HI>> ELSE <<Head(text)>>)
         \o add_surrogate_low_first(Tail(text))

RECURSIVE add_surrogate(_)
\* Every codepoint >= 0x10000 becomes its two UTF-16 code units.
add_surrogate(text) ==
    IF text = <<>> THEN <<>>
    ELSE (IF Head(text) = ASTRAL THEN <<HI, LO>> ELSE <<Head(text)>>)
         \o add_surrogate(Tail(text))

RECURSIVE del_surrogate(_)
\* text.encode("utf-16", "surrogatepass").decode("utf-16"): a high unit
\* followed by a low unit is recombined; any other surrogate unit is left in
\* place here and makes the decode fail (see Decodes).
del_surrogate(text) ==
    IF text = <<>> THEN <<>>
    ELSE IF Len(text) >= 2 /\ text[1] = HI /\ text[2] = LO
         THEN <<ASTRAL>> \o del_surrogate(Tail(Tail(text)))
         ELSE <<Head(text)>> \o del_surrogate(Tail(text))

\* The decode of del_surrogate succeeds: no unpaired surrogate unit is left.
Decodes(text) ==
    LET d == del_surrogate(text)
    IN  \A k \in 1..Len(d) : d[k] \notin {HI, LO}

\* A position strictly between the two units of a surrogate pair.
within_surrogate(text, index) ==
    /\ 0 < index
    /\ index < Len(text)
    /\ text[index] = HI          \* text[index - 1], 0-based
    /\ text[index + 1] = LO      \* text[index], 0-based

-----------------------------------------------------------------------------
(* tl.types.MessageEntity*: one record shape for every kind; the fields a  *)
(* kind does not carry keep their defaults.                                *)

Entity(kind, offset, length) ==
    [kind |-> kind, offset |-> offset, length |-> length,
     language |-> <<>>, url |-> <<>>, document_id |-> 0, user_id |-> 0,
     collapsed |-> FALSE]

MessageEntityPre(offset, length, language) ==
    [Entity("Pre", offset, length) EXCEPT !.language = language]

MessageEntityTextUrl(offset, length, url) ==
    [Entity("TextUrl", offset, length) EXCEPT !.url = url]

MessageEntityCustomEmoji(offset, length, document_id) ==
    [Entity("CustomEmoji", offset, length) EXCEPT !.document_id = document_id]

MessageEntityBlockquote(offset, length, collapsed) ==
    [Entity("Blockquote", offset, length) EXCEPT !.collapsed = collapsed]

MessageEntityMentionName(offset, length, user_id) ==
    [Entity("MentionName", offset, length) EXCEPT !.user_id = user_id]

\* helpers.strip_text, one entity: <<e'>> when it is kept, <<>> when deleted.
strip_entity(e, left_offset, len_final) ==
    IF e.length = 0 THEN <<>>
    ELSE IF ~(e.offset + e.length > left_offset) THEN <<>>
    ELSE LET e1 == IF e.offset >= left_offset
                   THEN [e EXCEPT !.offset = e.offset - left_offset]
                   ELSE [e EXCEPT !.length = e.offset + e.length - left_offset,
                                  !.offset = 0]
         IN  IF e1.offset + e1.length <= len_final THEN <<e1>>
             ELSE IF e1.offset >= len_final THEN <<>>
             ELSE <<[e1 EXCEPT !.length = len_final - e1.offset]>>

RECURSIVE strip_entities(_, _, _)
strip_entities(entities, left_offset, len_final) ==
    IF entities = <<>> THEN <<>>
    ELSE strip_entity(Head(entities), left_offset, len_final)
         \o strip_entities(Tail(entities), left_offset, len_final)

\* helpers.strip_text(text, entities): the stripped text and the entities
\* shifted and cut to it, zero-length entities removed.
strip_text(text, entities) ==
    IF entities = <<>> THEN [text |-> strip(text), entities |-> <<>>]
    ELSE LET lstripped == lstrip(text)
             left_offset == Len(text) - Len(lstripped)
             stripped == rstrip(lstripped)
         IN  [text |-> stripped,
              entities |-> strip_entities(entities, left_offset, Len(stripped))]

-----------------------------------------------------------------------------
(* markdown.py: the delimiter table                                        *)

\* DEFAULT_DELIMITERS, in the order delim_re tries them: sorted by length,
\* longest first (a stable sort of the table's own order).
DEFAULT_DELIMITERS ==
    << [delim |-> <<BT, BT, BT>>,    kind |-> "Pre"],
       [delim |-> <<"*", "*">>,      kind |-> "Bold"],
       [delim |-> <<"_", "_">>,      kind |-> "Italic"],
       [delim |-> <<"~", "~">>,      kind |-> "Strike"],
       [delim |-> <<"|", "|">>,      kind |-> "Spoiler"],
       [delim |-> <<"^", "^">>,      kind |-> "Blockquote"],
       [delim |-> <<BT>>,            kind |-> "Code"] >>

\* delim_re_match with the alternatives tried shortest first: a back-tick
\* wins over three of them.
delim_re_match_shortest_first(msg, pos) ==
    LET hits == {k \in 1..Len(DEFAULT_DELIMITERS) :
                    StartsAt(msg, DEFAULT_DELIMITERS[k].delim, pos)}
    IN  IF hits = {} THEN 0 ELSE CHOOSE k \in hits : \A q \in hits : k >= q

\* delim_re.match(message, pos): the index in DEFAULT_DELIMITERS of the first
\* alternative that matches at pos, 0 when none does.
delim_re_match(msg, pos) ==
    LET hits == {k \in 1..Len(DEFAULT_DELIMITERS) :
                    StartsAt(msg, DEFAULT_DELIMITERS[k].delim, pos)}
    IN  IF hits = {} THEN 0 ELSE CHOOSE k \in hits : \A q \in hits : k <= q

\* REVERSE_DELIMITERS.get(type(entity)): the table is keyed by the values of
\* DEFAULT_DELIMITERS; the value stored for "^^" is a lambda, which is the
\* type of no entity, so a Blockquote has no entry.
REVERSE_DELIMITERS(kind) ==
    LET hits == {k \in 1..Len(DEFAULT_DELIMITERS) :
                    /\ DEFAULT_DELIMITERS[k].kind = kind
                    /\ kind # "Blockquote"}
    IN  IF hits = {} THEN <<>>
        ELSE DEFAULT_DELIMITERS[CHOOSE k \in hits : TRUE].delim

-----------------------------------------------------------------------------
(* markdown.py: parse                                                      *)

Str_spoiler == <<"s", "p", "o", "i", "l", "e", "r">>
Str_emoji_slash == <<"e", "m", "o", "j", "i", "/">>

Digits == {"0", "1", "2", "3", "4", "5", "6", "7", "8", "9"}

DigitVal(c) ==
    CASE c = "0" -> 0 [] c = "1" -> 1 [] c = "2" -> 2 [] c = "3" -> 3
      [] c = "4" -> 4 [] c = "5" -> 5 [] c = "6" -> 6 [] c = "7" -> 7
      [] c = "8" -> 8 [] c = "9" -> 9

RECURSIVE DecimalValue(_)
DecimalValue(s) ==
    IF s = <<>> THEN 0
    ELSE 10 * DecimalValue(SubSeq(s, 1, Len(s) - 1)) + DigitVal(s[Len(s)])

\* Python int(s): surrounding whitespace is ignored; -1 stands for ValueError.
int(s) ==
    LET t == strip(s)
    IN  IF t # <<>> /\ \A k \in 1..Len(t) : t[k] \in Digits
        THEN DecimalValue(t) ELSE -1

\* s.split("/")[1] for an s that holds a "/"
split_slash_1(s) ==
    LET a == Find(s, <<"/">>, 0)
        b == Find(s, <<"/">>, a + 1)
    IN  Slice(s, a + 1, IF b = -1 THEN Len(s) ELSE b)

\* DEFAULT_URL_RE.match(message, pos): "[" label "](" url ")" with the label
\* free of "]" and both groups as short as possible.
url_re_match(msg, pos) ==
    LET rb == Find(msg, <<"]">>, pos + 1)
        rp == Find(msg, <<")">>, rb + 2)
    IN  IF /\ StartsAt(msg, <<"[">>, pos)
           /\ rb # -1
           /\ StartsAt(msg, <<"(">>, rb + 1)
           /\ rp # -1
        THEN [ok |-> TRUE, group1 |-> Slice(msg, pos + 1, rb),
              group2 |-> Slice(msg, rb + 2, rp), end |-> rp + 1]
        ELSE [ok |-> FALSE, group1 |-> <<>>, group2 |-> <<>>, end |-> pos]

\* shrink_for_delimiter that takes one delimiter off an enclosing entity
\* where the code takes two.
shrink_for_delimiter_once(ent, at, end, len_delim) ==
    IF ent.offset + ent.length > at
    THEN [ent EXCEPT !.length = ent.length - len_delim]
    ELSE ent

\* "Check other affected entities" after a delimiter pair was removed.
shrink_for_delimiter(ent, at, end, len_delim) ==
    IF ent.offset + ent.length > at
    THEN IF ent.offset <= at /\ ent.offset + ent.length >= end + len_delim
         THEN [ent EXCEPT !.length = ent.length - len_delim * 2]
         ELSE [ent EXCEPT !.length = ent.length - len_delim]
    ELSE ent

\* The same after a link's syntax was removed.
shrink_for_url(ent, start, delim_size) ==
    IF ent.offset + ent.length > start
    THEN [ent EXCEPT !.length = ent.length - delim_size]
    ELSE ent

\* Where the scan goes on after a delimiter pair of a kind other than Pre:
\* "No nested entities inside code blocks".
cursor_after_delimiter(kind, at, end, len_delim) ==
    IF kind \in {"Code", "Pre"} THEN end - len_delim ELSE at

\* The Pre branch: the language tag, the text without it, the entity and the
\* cursor.  msg is the text with the two delimiters already removed.
pre_branch(msg, at, end, len_delim) ==
    LET lang_index == FindIn(msg, <<"\n">>, at, end - len_delim)
        m_len0 == end - len_delim - lang_index
        takes == lang_index # -1 /\ m_len0 > 1
        lang == IF takes THEN Slice(msg, at, lang_index) ELSE <<>>
        msg1 == IF takes
                THEN Slice(msg, 0, at)
                     \o Slice(msg, lang_index + 1, end - len_delim)
                     \o From(msg, end - len_delim)
                ELSE msg
        m_len == IF lang = <<>> THEN end - at - len_delim ELSE m_len0
    IN  [message |-> msg1,
         entity |-> MessageEntityPre(at, m_len, lang),
         i |-> IF lang # <<>> THEN end - len_delim - (Len(lang) + 1)
               ELSE end - len_delim]

\* One iteration of the scan loop whose delimiter (number k of the table) was
\* found at st.i and again at end.
scan_delimiter(st, k, end) ==
    LET delim == DEFAULT_DELIMITERS[k].delim
        kind == DEFAULT_DELIMITERS[k].kind
        ld == Len(delim)
        msg == Slice(st.message, 0, st.i)
               \o Slice(st.message, st.i + ld, end)
               \o From(st.message, end + ld)
        shrunk == [n \in 1..Len(st.result) |->
                      shrink_for_delimiter(st.result[n], st.i, end, ld)]
        pre == pre_branch(msg, st.i, end, ld)
    IN  IF kind = "Pre"
        THEN [st EXCEPT !.message = pre.message,
                        !.result = Append(shrunk, pre.entity),
                        !.i = pre.i]
        ELSE [st EXCEPT !.message = msg,
                        !.result = Append(shrunk,
                            IF kind = "Blockquote"
                            THEN MessageEntityBlockquote(st.i, end - st.i - ld, TRUE)
                            ELSE Entity(kind, st.i, end - st.i - ld)),
                        !.i = cursor_after_delimiter(kind, st.i, end, ld)]

\* The entity a link stands for.
url_entity(offset, length, url) ==
    IF url = Str_spoiler THEN Entity("Spoiler", offset, length)
    ELSE IF StartsAt(url, Str_emoji_slash, 0)
         THEN MessageEntityCustomEmoji(offset, length, int(split_slash_1(url)))
         ELSE MessageEntityTextUrl(offset, length, url)

\* One iteration of the scan loop that matched the link pattern m at st.i.
scan_url(st, m) ==
    LET msg == Slice(st.message, 0, st.i) \o m.group1 \o From(st.message, m.end)
        delim_size == m.end - st.i - Len(m.group1)
        shrunk == [n \in 1..Len(st.result) |->
                      shrink_for_url(st.result[n], st.i, delim_size)]
        url == del_surrogate(m.group2)
        ent == url_entity(st.i, Len(m.group1), url)
    IN  IF ent.kind = "CustomEmoji" /\ ent.document_id = -1
        THEN [st EXCEPT !.message = msg, !.result = shrunk,
                        !.raised = "ValueError"]
        ELSE [st EXCEPT !.message = msg,
                        !.result = Append(shrunk, ent),
                        !.i = st.i + Len(m.group1)]

\* scan_step that leaves the cursor where it is at a delimiter without a
\* closing occurrence, where the code moves it by one unit.
scan_step_stay(st) ==
    LET k == delim_re_match(st.message, st.i)
        end == IF k = 0 THEN -1
               ELSE Find(st.message, DEFAULT_DELIMITERS[k].delim,
                         st.i + Len(DEFAULT_DELIMITERS[k].delim) + 1)
        m == url_re_match(st.message, st.i)
    IN  IF k # 0
        THEN IF end # -1 THEN scan_delimiter(st, k, end) ELSE st
        ELSE IF m.ok THEN scan_url(st, m)
        ELSE [st EXCEPT !.i = st.i + 1]

\* scan_step that steps over the whole of a delimiter without a closing
\* occurrence, where the code steps over one unit of it.
scan_step_over_delimiter(st) ==
    LET k == delim_re_match(st.message, st.i)
        end == IF k = 0 THEN -1
               ELSE Find(st.message, DEFAULT_DELIMITERS[k].delim,
                         st.i + Len(DEFAULT_DELIMITERS[k].delim) + 1)
        m == url_re_match(st.message, st.i)
    IN  IF k # 0
        THEN IF end # -1 THEN scan_delimiter(st, k, end)
             ELSE [st EXCEPT !.i = st.i + Len(DEFAULT_DELIMITERS[k].delim)]
        ELSE IF m.ok THEN scan_url(st, m)
        ELSE [st EXCEPT !.i = st.i + 1]

\* One iteration of "while i < len(message)".
scan_step(st) ==
    LET k == delim_re_match(st.message, st.i)
        end == IF k = 0 THEN -1
               ELSE Find(st.message, DEFAULT_DELIMITERS[k].delim,
                         st.i + Len(DEFAULT_DELIMITERS[k].delim) + 1)
        m == url_re_match(st.message, st.i)
    IN  IF k # 0
        THEN IF end # -1 THEN scan_delimiter(st, k, end)
             ELSE [st EXCEPT !.i = st.i + 1]
        ELSE IF m.ok THEN scan_url(st, m)
        ELSE [st EXCEPT !.i = st.i + 1]

RECURSIVE scan(_)
\* The whole loop, from st on.
scan(st) ==
    IF st.raised # "" \/ ~(st.i < Len(st.message)) THEN st
    ELSE scan(scan_step(st))

\* What parse returns once the loop has ended: strip_text, del_surrogate.
parse_return(st) ==
    IF st.raised # ""
    THEN [raised |-> st.raised, text |-> <<>>, entities |-> <<>>]
    ELSE LET s == strip_text(st.message, st.result)
         IN  [raised |-> "", text |-> del_surrogate(s.text),
              entities |-> s.entities]

\* The state of the scan at its start.
parse_start(msg) ==
    [message |-> add_surrogate(msg), i |-> 0, result |-> <<>>, raised |-> ""]

\* markdown.parse(message) with the default tables.
markdown_parse(msg) ==
    IF msg = <<>> THEN [raised |-> "", text |-> msg, entities |-> <<>>]
    ELSE parse_return(scan(parse_start(msg)))

-----------------------------------------------------------------------------
(* markdown.py: unparse                                                    *)

Str_tg_user == <<"t", "g", ":", "/", "/", "u", "s", "e", "r", "?", "i", "d", "=">>

DigitChar(d) ==
    CASE d = 0 -> "0" [] d = 1 -> "1" [] d = 2 -> "2" [] d = 3 -> "3"
      [] d = 4 -> "4" [] d = 5 -> "5" [] d = 6 -> "6" [] d = 7 -> "7"
      [] d = 8 -> "8" [] d = 9 -> "9"

RECURSIVE format_int(_)
\* "{}".format(n) for an integer n >= 0
format_int(n) ==
    IF n < 10 THEN <<DigitChar(n)>>
    ELSE format_int(n \div 10) \o <<DigitChar(n % 10)>>

\* The url unparse writes for an entity that has no delimiter; <<>> if none.
unparse_url(entity) ==
    CASE entity.kind = "TextUrl" -> entity.url
      [] entity.kind = "MentionName" -> Str_tg_user \o format_int(entity.user_id)
      [] entity.kind = "Spoiler" -> Str_spoiler
      [] entity.kind = "CustomEmoji" ->
             Str_emoji_slash \o format_int(entity.document_id)
      [] OTHER -> <<>>

\* The insertion requests (position, ordinal, token) of entity number n
\* (0-based) of a list of count entities.
insertions_of(entity, n, count) ==
    LET s == entity.offset
        e == entity.offset + entity.length
        delimiter == REVERSE_DELIMITERS(entity.kind)
        s_delimiter == IF entity.kind = "Pre" /\ entity.language # <<>>
                       THEN delimiter \o entity.language \o <<"\n">>
                       ELSE delimiter
        url == unparse_url(entity)
    IN  IF delimiter # <<>>
        THEN << <<s, n, s_delimiter>>, <<e, count - n, delimiter>> >>
        ELSE IF url # <<>>
             THEN << <<s, n, <<"[">> >>,
                     <<e, count - n, <<"]", "(">> \o url \o <<")">> >> >>
             ELSE <<>>

RECURSIVE collect_insertions(_, _)
\* insert_at after the for loop, for the entities from number n (0-based) on.
collect_insertions(entities, n) ==
    IF n >= Len(entities) THEN <<>>
    ELSE insertions_of(entities[n + 1], n, Len(entities))
         \o collect_insertions(entities, n + 1)

\* The sort key of insert_at.sort
insert_key_le(a, b) == a[1] < b[1] \/ (a[1] = b[1] /\ a[2] <= b[2])

RECURSIVE sort_insertions(_)
\* insert_at.sort(key=lambda t: (t[0], t[1])): stable, ascending.
sort_insertions(xs) ==
    IF Len(xs) <= 1 THEN xs
    ELSE LET rest == sort_insertions(SubSeq(xs, 1, Len(xs) - 1))
             x == xs[Len(xs)]
             \* x goes after every element whose key is <= its own
             n == Cardinality({k \in 1..Len(rest) : insert_key_le(rest[k], x)})
         IN  SubSeq(rest, 1, n) \o <<x>> \o SubSeq(rest, n + 1, Len(rest))

\* nudge without the loop: the position is used as it is.
nudge_not(text, at) == at

RECURSIVE nudge(_, _)
\* "while within_surrogate(text, at): at += 1"
nudge(text, at) ==
    IF within_surrogate(text, at) THEN nudge(text, at + 1) ELSE at

\* One insertion: the position is nudged out of a surrogate pair first.
insert_token(text, at, what) ==
    LET p == nudge(text, at)
    IN  Slice(text, 0, p) \o what \o From(text, p)

RECURSIVE apply_insertions_forward(_, _)
\* apply_insertions that takes the requests from the first one on, so that
\* each insertion moves the text the later ones point into.
apply_insertions_forward(text, insert_at) ==
    IF insert_at = <<>> THEN text
    ELSE LET t == insert_at[1]
         IN  apply_insertions_forward(insert_token(text, t[1], t[3]),
                                      Tail(insert_at))

RECURSIVE apply_insertions(_, _)
\* "while insert_at: at, _, what = insert_at.pop()": from the last one back.
apply_insertions(text, insert_at) ==
    IF insert_at = <<>> THEN text
    ELSE LET t == insert_at[Len(insert_at)]
         IN  apply_insertions(insert_token(text, t[1], t[3]),
                              SubSeq(insert_at, 1, Len(insert_at) - 1))

\* markdown.unparse(text, entities) with the default tables.
markdown_unparse(text, entities) ==
    IF text = <<>> \/ entities = <<>> THEN [raised |-> "", text |-> text]
    ELSE LET out == apply_insertions(add_surrogate(text),
                        sort_insertions(collect_insertions(entities, 0)))
         IN  IF Decodes(out) THEN [raised |-> "", text |-> del_surrogate(out)]
             ELSE [raised |-> "UnicodeDecodeError", text |-> <<>>]

-----------------------------------------------------------------------------
(* The inputs the calls are given                                          *)

\* Bounds of the model
MaxWord == 3          \* pieces of a markup string built from every piece
MaxStars == 7         \* pieces of a markup string built from "**" and "a"
MaxTicks == 5         \* pieces of a markup string built around back-ticks
MaxOffset == 3        \* greatest offset of an entity handed to unparse
MaxLength == 3        \* greatest length of an entity handed to unparse
MaxContent == 3       \* units between a delimiter pair, or of a link's label

RECURSIVE Words(_, _)
\* The strings made of at most n pieces of P.
Words(P, n) ==
    IF n = 0 THEN {<<>>}
    ELSE LET W == Words(P, n - 1) IN W \cup {w \o q : w \in W, q \in P}

Delims == {DEFAULT_DELIMITERS[k].delim : k \in 1..Len(DEFAULT_DELIMITERS)}

\* Contents free of delimiters, link syntax, line breaks and outer blanks.
PlainContents ==
    {c \in Words({<<"a">>, <<" ">>, <<ASTRAL>>}, MaxContent) :
        c # <<>> /\ c[1] # " " /\ c[Len(c)] # " "}

LinkLabels == PlainContents \cup {<<>>, <<"*", "*", "a", "*", "*">>}

LinkTargets ==
    {Str_spoiler, <<"u">>, <<"u", ASTRAL>>,
     Str_emoji_slash \o <<"1">>, Str_emoji_slash \o <<"1", "2">>,
     Str_emoji_slash \o <<"a">>, Str_emoji_slash}

AllPieces ==
    Delims \cup {<<"a">>, <<" ">>, <<"\n">>, <<ASTRAL>>, <<"[">>, <<"]", "(">>,
                 <<")">>, <<"u">>}

PreTails ==
    {<<>>, <<" ", "t">>, <<"*", "*", "x", "*", "*">>,
     <<"*", "*", "x", "*", "*", "y">>, <<"c", "*", "*", "x", "*", "*">>}

\* "**a ```p\nc``` x** y": a Pre with a language inside a Bold
BoldAroundPre ==
    <<"*", "*", "a", " ", BT, BT, BT, "p", "\n", "c", BT, BT, BT, " ", "x",
      "*", "*", " ", "y">>

\* The markup that can stand inside or after a pair of d1 and be matched on
\* its own: a pair of a delimiter that shares no unit with d1 around "b", or
\* a link with the label "b".
InnerMarkups(d1) ==
    {d2 \o <<"b">> \o d2 : d2 \in {d \in Delims : d[1] # d1[1]}}
    \cup {<<"[", "b", "]", "(", "u", ")">>}

\* x d1 a <inner> c d1 y: a pair or a link nested in a pair
NestedMarkup(d1, inner) ==
    <<"x">> \o d1 \o <<"a">> \o inner \o <<"c">> \o d1 \o <<"y">>

\* x d1 a c d1 <inner> y: a pair followed by a pair or a link
SiblingMarkup(d1, inner) ==
    <<"x">> \o d1 \o <<"a", "c">> \o d1 \o inner \o <<"y">>

\* x ** a __ a ~~b~~ c __ c ** y: three levels
DeepMarkup ==
    NestedMarkup(<<"*", "*">>,
                 <<"_", "_", "a", "~", "~", "b", "~", "~", "c", "_", "_">>)

\* Markup whose delimiter pairs and links are properly nested.
NestedInputs ==
    UNION {{NestedMarkup(d1, inner) : inner \in InnerMarkups(d1)} : d1 \in Delims}
    \cup UNION {{SiblingMarkup(d1, inner) : inner \in InnerMarkups(d1)} :
                   d1 \in Delims}
    \cup {DeepMarkup}

\* The markup strings markdown.parse is called with.
MarkdownInputs ==
    Words(AllPieces, MaxWord)
    \cup Words({<<"*", "*">>, <<"a">>}, MaxStars)
    \cup Words({<<BT>>, <<"*", "*">>, <<"a">>, <<" ">>}, MaxTicks)
    \cup {d \o c \o d : d \in Delims, c \in PlainContents}
    \cup {<<"[">> \o l \o <<"]", "(">> \o t \o <<")">> :
             l \in LinkLabels, t \in LinkTargets}
    \cup {<<BT, BT, BT>> \o lang \o <<"\n">> \o code \o <<BT, BT, BT>> \o tail :
             lang \in {<<>>, <<"p">>}, code \in {<<"c">>, <<"c", "d">>},
             tail \in PreTails}
    \cup {<<"*", "*", "a", " ", "_", "_", "b", "*", "*", " ", "c", "_", "_">>,
          <<"x", " ", "*", "*", "a", " ", "[", "b", "*", "*", "c", "]", "(",
            "u", ")">>,
          <<BT, "a", " ", "*", "*", "b", "*", "*", " ", "c", BT>>,
          <<"*", "*", "_", "_", "a", "_", "_", "*", "*">>,
          BoldAroundPre}
    \cup NestedInputs

\* The texts and entities markdown.unparse is called with by a caller that
\* did not get them from parse.
UnparseTexts ==
    {<<"a", "b">>, <<ASTRAL>>, <<"a", ASTRAL>>, <<ASTRAL, "b">>,
     <<"a", "b", "c", "d">>}

UnparseEntities ==
    {Entity(k, o, l) : k \in {"Bold", "Code", "Underline", "Blockquote"},
                       o \in 0..MaxOffset, l \in 1..MaxLength}
    \cup {MessageEntityTextUrl(o, l, <<"u">>) :
             o \in 0..MaxOffset, l \in 1..MaxLength}

\* Lists of up to two entities, of three where the first is an Underline,
\* and a Bold followed by an Italic that starts where the Bold ends.
UnparseEntityLists ==
    {<<>>} \cup {<<e>> : e \in UnparseEntities}
    \cup {<<e, f>> : e \in UnparseEntities, f \in UnparseEntities}
    \cup {<<Entity("Underline", 0, 1), e, f>> :
             e \in UnparseEntities, f \in UnparseEntities}
    \cup {<<Entity("Bold", 0, 2), Entity("Italic", 2, 2)>>}

-----------------------------------------------------------------------------
(* The calls                                                               *)

NoHelper ==
    [text |-> <<>>, entities |-> <<>>, tag_entities |-> <<>>, feed |-> <<>>,
     raised |-> ""]
NoReturn == [raised |-> "", text |-> <<>>, entities |-> <<>>]

\* AsyncSQLite.__init__: the fields of a new instance.  An AuthKey is
\* written as its key, None as "None".
\* Python values a database column can hold, tagged by their type: None,
\* an integer, bytes.
None_ == [t |-> "None", v |-> <<>>]
integer(n) == [t |-> "int", v |-> <<n>>]
bytes(b) == [t |-> "bytes", v |-> b]

NewSession(store_tmp_auth_key_on_disk) ==
    [dc_id |-> 0, server_address |-> "None", port |-> None_,
     auth_key |-> None_, tmp_auth_key |-> None_, takeout_id |-> None_,
     store_tmp_auth_key_on_disk |-> store_tmp_auth_key_on_disk]

\* A session file that does not exist yet: no table.
NoDatabase == [tables |-> FALSE, sessions |-> <<>>, entities |-> {}]

\* BinaryReader.__init__(data)
BinaryReader(data) == [stream |-> data, position |-> 0]

\* A client with no update handler and no transcribe call.
NewClient == [handlers |-> <<>>, calls |-> <<>>]

Init ==
    /\ pc = "idle"
    /\ arg = [call |-> "", markup |-> <<>>, text |-> <<>>, entities |-> <<>>]
    /\ message = <<>>
    /\ i = 0
    /\ result = <<>>
    /\ hp = NoHelper
    /\ ret = NoReturn
    /\ session = NewSession(FALSE)
    /\ database = NoDatabase
    /\ reader = BinaryReader(<<>>)
    /\ client = NewClient

\* The scan state of the running markdown.parse call.
scan_state == [message |-> message, i |-> i, result |-> result, raised |-> ""]

\* The scan state st becomes the state of the running call.
ScanBecomes(st) ==
    /\ message' = st.message
    /\ i' = st.i
    /\ result' = st.result
    /\ IF st.raised # ""
       THEN pc' = "md_raised" /\ ret' = parse_return(st)
       ELSE pc' = "md_scan" /\ ret' = ret
    /\ UNCHANGED <<arg, hp>>

\* markdown.parse(m) is called: lines 51-80.
md_parse_call ==
    /\ pc = "idle"
    /\ \E m \in MarkdownInputs :
          /\ arg' = [call |-> "md_parse", markup |-> m,
                     text |-> <<>>, entities |-> <<>>]
          /\ IF m = <<>>
             THEN /\ pc' = "md_parsed"
                  /\ ret' = [raised |-> "", text |-> m, entities |-> <<>>]
                  /\ UNCHANGED <<message, i, result>>
             ELSE /\ pc' = "md_scan"
                  /\ message' = parse_start(m).message
                  /\ i' = parse_start(m).i
                  /\ result' = parse_start(m).result
                  /\ ret' = NoReturn
    /\ UNCHANGED hp
    /\ UNCHANGED others

\* A loop iteration that finds a delimiter at i and its closing occurrence.
md_scan_delimiter ==
    /\ pc = "md_scan" /\ i < Len(message)
    /\ LET k == delim_re_match(message, i)
       IN  /\ k # 0
           /\ Find(message, DEFAULT_DELIMITERS[k].delim,
                   i + Len(DEFAULT_DELIMITERS[k].delim) + 1) # -1
    /\ \E st \in {scan_step(scan_state)} : ScanBecomes(st)
    /\ UNCHANGED others

\* A loop iteration that finds a delimiter at i with no closing occurrence.
md_scan_unmatched ==
    /\ pc = "md_scan" /\ i < Len(message)
    /\ LET k == delim_re_match(message, i)
       IN  /\ k # 0
           /\ Find(message, DEFAULT_DELIMITERS[k].delim,
                   i + Len(DEFAULT_DELIMITERS[k].delim) + 1) = -1
    /\ \E st \in {scan_step(scan_state)} : ScanBecomes(st)
    /\ UNCHANGED others

\* A loop iteration that finds no delimiter at i but a link.
md_scan_url ==
    /\ pc = "md_scan" /\ i < Len(message)
    /\ delim_re_match(message, i) = 0
    /\ url_re_match(message, i).ok
    /\ \E st \in {scan_step(scan_state)} : ScanBecomes(st)
    /\ UNCHANGED others

\* A loop iteration that finds neither.
md_scan_advance ==
    /\ pc = "md_scan" /\ i < Len(message)
    /\ delim_re_match(message, i) = 0
    /\ ~url_re_match(message, i).ok
    /\ \E st \in {scan_step(scan_state)} : ScanBecomes(st)
    /\ UNCHANGED others

\* The loop has ended: lines 181-182.
md_parse_return ==
    /\ pc = "md_scan" /\ ~(i < Len(message))
    /\ pc' = "md_parsed"
    /\ ret' = parse_return(scan_state)
    /\ UNCHANGED <<arg, message, i, result, hp>>
    /\ UNCHANGED others

\* markdown.unparse is called with what markdown.parse has just returned.
md_unparse_parsed ==
    /\ pc = "md_parsed"
    /\ pc' = "md_unparsed"
    /\ arg' = [call |-> "md_unparse_parsed", markup |-> arg.markup,
               text |-> ret.text, entities |-> ret.entities]
    /\ ret' = markdown_unparse(ret.text, ret.entities)
    /\ UNCHANGED <<message, i, result, hp>>
    /\ UNCHANGED others

\* markdown.unparse is called by a caller with a text and entities of its own.
md_unparse_call ==
    /\ pc = "idle"
    /\ \E t \in UnparseTexts, es \in UnparseEntityLists :
          /\ arg' = [call |-> "md_unparse", markup |-> <<>>,
                     text |-> t, entities |-> es]
          /\ ret' = markdown_unparse(t, es)
    /\ pc' = "md_unparsed"
    /\ UNCHANGED <<message, i, result, hp>>
    /\ UNCHANGED others

NextMarkdown ==
    \/ md_parse_call
    \/ md_scan_delimiter
    \/ md_scan_unmatched
    \/ md_scan_url
    \/ md_scan_advance
    \/ md_parse_return
    \/ md_unparse_parsed
    \/ md_unparse_call

SpecMarkdown == Init /\ [][NextMarkdown]_vars

-----------------------------------------------------------------------------
(* Claims about the Markdown dialect                                       *)

\* The entities of a sequence, as a set.
EntitySet(es) == {es[n] : n \in 1..Len(es)}

\* markdown.parse has returned and its result was handed to markdown.unparse,
\* which returned too.
RoundTripped == pc = "md_unparsed" /\ arg.call = "md_unparse_parsed"

\* The units the Markdown dialect reads as markup.
MarkupUnits == {"*", "_", "~", "|", "^", BT, "[", "]", "(", ")"}

\* A text that holds no markup unit: one the dialect can write down as it is.
PlainText(text) == \A n \in 1..Len(text) : text[n] \notin MarkupUnits

\* C1: Markdown round trip.  Whenever markdown.parse(m) returned
\* (text, entities), parsing markdown.unparse(text, entities) again returns
\* the same text and the same set of entities, whatever kinds parse produced
\* (Bold, Italic, Strike, Code, Pre, Spoiler, collapsed Blockquote, TextUrl,
\* CustomEmoji).  Stated here for the results whose text holds no markup
\* unit, the ones the dialect can express without escaping.
C1_MarkdownRoundTrip ==
    (RoundTripped /\ PlainText(arg.text)) =>
        /\ ret.raised = ""
        /\ LET again == markdown_parse(ret.text)
           IN  /\ again.raised = ""
               /\ again.text = arg.text
               /\ EntitySet(again.entities) = EntitySet(arg.entities)


\* A step of the scan that records one more entity.
RecordsEntity ==
    /\ pc = "md_scan" /\ pc' = "md_scan"
    /\ Len(result') = Len(result) + 1

\* Position p lies inside the span of entity e.
StartsInside(p, e) == e.offset <= p /\ p < e.offset + e.length

\* C3: no nesting inside fixed-width spans.  Once the scan has recorded a
\* Code or Pre entity, no later step records an entity whose span starts
\* inside the span of that Code or Pre entity.
C3_NoEntityInsideFixedWidth ==
    [][RecordsEntity =>
          \A n \in 1..Len(result) :
              result[n].kind \in {"Code", "Pre"} =>
                  ~StartsInside(result'[Len(result')].offset, result[n])]_vars

\* The entity the delimiter table gives for delim over (offset, length).
EntityOfDelimiter(delim, offset, length) ==
    LET k == CHOOSE n \in 1..Len(DEFAULT_DELIMITERS) :
                 DEFAULT_DELIMITERS[n].delim = delim
        kind == DEFAULT_DELIMITERS[k].kind
    IN  IF kind = "Blockquote" THEN MessageEntityBlockquote(offset, length, TRUE)
        ELSE Entity(kind, offset, length)

LinkMarkup(l, t) == <<"[">> \o l \o <<"]", "(">> \o t \o <<")">>

\* T is "emoji/<n>": the digits of a number follow the slash.
IsEmojiTarget(t) ==
    /\ StartsAt(t, Str_emoji_slash, 0)
    /\ Len(t) > Len(Str_emoji_slash)
    /\ \A n \in (Len(Str_emoji_slash) + 1)..Len(t) : t[n] \in Digits

\* C5: link versus special targets.  For every label L and target T,
\* markdown.parse("[L](T)") returns the text L and exactly one entity over
\* (0, len(L)): a Spoiler when T is "spoiler", a CustomEmoji with document_id
\* n when T is "emoji/<n>", a TextUrl with url T otherwise.  Stated here for
\* the labels free of markup and outer blanks.
C5_LinkTargets ==
    \A l \in PlainContents, t \in LinkTargets :
        (pc \in {"md_parsed", "md_raised"} /\ arg.markup = LinkMarkup(l, t)) =>
            /\ ret.raised = ""
            /\ ret.text = l
            /\ ret.entities =
                 << IF t = Str_spoiler
                    THEN Entity("Spoiler", 0, Len(add_surrogate(l)))
                    ELSE IF IsEmojiTarget(t)
                    THEN MessageEntityCustomEmoji(0, Len(add_surrogate(l)),
                             DecimalValue(From(t, Len(Str_emoji_slash))))
                    ELSE MessageEntityTextUrl(0, Len(add_surrogate(l)), t) >>

OutOfRange(e, len) == e.offset > len \/ e.offset + e.length > len

\* C8: out-of-range entities are rejected.  When unparse is given an entity
\* whose offset or offset + length lies beyond the end of the text, it
\* reports an InvalidEntity error and returns no marked-up text.
C8_OutOfRangeRejected ==
    (/\ pc = "md_unparsed"
     /\ \E n \in 1..Len(arg.entities) :
           OutOfRange(arg.entities[n], Len(add_surrogate(arg.text))))
        => ret.raised = "InvalidEntity"

\* C10: the entities markdown.parse returns stay within bounds: offset >= 0,
\* length > 0 and offset + length <= the UTF-16 length of the returned text.
C10_ParsedEntitiesInBounds ==
    pc = "md_parsed" =>
        \A n \in 1..Len(ret.entities) :
            /\ ret.entities[n].offset >= 0
            /\ ret.entities[n].length > 0
            /\ ret.entities[n].offset + ret.entities[n].length
                   <= Len(add_surrogate(ret.text))

-----------------------------------------------------------------------------
(* markdown2.py: text helpers of the HTML dialect                          *)

Str_b == <<"b">>
Str_strong == <<"s", "t", "r", "o", "n", "g">>
Str_i == <<"i">>
Str_em == <<"e", "m">>
Str_code == <<"c", "o", "d", "e">>
Str_pre == <<"p", "r", "e">>
Str_a == <<"a">>
Str_emoji == <<"e", "m", "o", "j", "i">>
Str_tg_emoji == <<"t", "g", "-", "e", "m", "o", "j", "i">>
Str_u == <<"u">>
Str_s == <<"s">>
Str_del == <<"d", "e", "l">>
Str_strike == <<"s", "t", "r", "i", "k", "e">>
Str_blockquote == <<"b", "l", "o", "c", "k", "q", "u", "o", "t", "e">>
Str_expandable == <<"e", "x", "p", "a", "n", "d", "a", "b", "l", "e">>
Str_language == <<"l", "a", "n", "g", "u", "a", "g", "e">>
Str_href == <<"h", "r", "e", "f">>
Str_document_id == <<"d", "o", "c", "u", "m", "e", "n", "t", "_", "i", "d">>

Letters ==
    {"a", "b", "c", "d", "e", "f", "g", "h", "i", "j", "k", "l", "m", "n",
     "o", "p", "q", "r", "s", "t", "u", "v", "w", "x", "y", "z"}

\* The units the regular expressions' \w matches.
WordUnits == Letters \cup Digits \cup {"_"}

\* The named character references html.unescape knows, among the strings of
\* this model: [name, the unit it stands for].
CharRefs ==
    << [name |-> <<"a", "m", "p">>, unit |-> "&"],
       [name |-> <<"l", "t">>, unit |-> "<"],
       [name |-> <<"g", "t">>, unit |-> ">"],
       [name |-> <<"q", "u", "o", "t">>, unit |-> "\""] >>

\* The reference that starts right after the "&" at 0-based position pos,
\* 0 when there is none.
CharRefAt(s, pos) ==
    LET hits == {n \in 1..Len(CharRefs) : StartsAt(s, CharRefs[n].name, pos + 1)}
    IN  IF hits = {} THEN 0 ELSE CHOOSE n \in hits : TRUE

RECURSIVE html_unescape_from(_, _)
html_unescape_from(s, pos) ==
    IF pos >= Len(s) THEN <<>>
    ELSE IF s[pos + 1] = "&" /\ CharRefAt(s, pos) # 0
    THEN LET r == CharRefs[CharRefAt(s, pos)]
             after == pos + 1 + Len(r.name)
             next == IF StartsAt(s, <<";">>, after) THEN after + 1 ELSE after
         IN  <<r.unit>> \o html_unescape_from(s, next)
    ELSE <<s[pos + 1]>> \o html_unescape_from(s, pos + 1)

\* html.unescape(s): every named reference, with or without its ";", becomes
\* the unit it stands for.
html_unescape(s) == html_unescape_from(s, 0)

RECURSIVE html_escape(_)
\* html.escape(s): "&", "<", ">" and the double quote become references.
html_escape(s) ==
    IF s = <<>> THEN <<>>
    ELSE (CASE Head(s) = "&" -> <<"&", "a", "m", "p", ";">>
            [] Head(s) = "<" -> <<"&", "l", "t", ";">>
            [] Head(s) = ">" -> <<"&", "g", "t", ";">>
            [] Head(s) = "\"" -> <<"&", "q", "u", "o", "t", ";">>
            [] OTHER -> <<Head(s)>>)
         \o html_escape(Tail(s))

-----------------------------------------------------------------------------
(* markdown2.py: HTMLParser.parse, the two substitutions of lines 179-180  *)

\* The number of whitespace units of s from 0-based position pos on.
RECURSIVE SpaceRun(_, _)
SpaceRun(s, pos) ==
    IF pos < Len(s) /\ s[pos + 1] \in Whitespace
    THEN 1 + SpaceRun(s, pos + 1) ELSE 0

\* The number of whitespace units of s right before 0-based position pos.
RECURSIVE SpaceRunBefore(_, _)
SpaceRunBefore(s, pos) ==
    IF pos > 0 /\ s[pos] \in Whitespace
    THEN 1 + SpaceRunBefore(s, pos - 1) ELSE 0

\* [\w<>=\s\"]
LeadingTagUnits == WordUnits \cup Whitespace \cup {"<", ">", "=", "\""}

\* [\w</>]
TrailingTagUnits == WordUnits \cup {"<", "/", ">"}

\* The length of the run of units of class from 0-based position pos on.
RECURSIVE ClassRun(_, _, _)
ClassRun(s, pos, class) ==
    IF pos < Len(s) /\ s[pos + 1] \in class
    THEN 1 + ClassRun(s, pos + 1, class) ELSE 0

\* re.sub(r"^\s*(<[\w<>=\s\"]*>)\s*", r"\1", text): the blanks before a
\* leading "<...>" and after the last ">" of its run are dropped.
strip_around_leading_tag(text) ==
    LET p == SpaceRun(text, 0)
    IN  IF ~StartsAt(text, <<"<">>, p) THEN text
        ELSE LET run == ClassRun(text, p + 1, LeadingTagUnits)
                 closes == {q \in (p + 1)..(p + run) : text[q + 1] = ">"}
             IN  IF closes = {} THEN text
                 ELSE LET q == CHOOSE c \in closes : \A d \in closes : d <= c
                          r == q + 1 + SpaceRun(text, q + 1)
                      IN  Slice(text, p, q + 1) \o From(text, r)

\* re.sub(r"\s*(</[\w</>]*>)\s*$", r"\1", text): the blanks before a closing
\* "</...>" that runs to the end of the text, and after it, are dropped.
strip_around_trailing_tag(text) ==
    LET t == rstrip(text)
        n == Len(t)
        starts == {q \in 0..(n - 3) :
                      /\ StartsAt(t, <<"<", "/">>, q)
                      /\ t[n] = ">"
                      /\ q + 2 + ClassRun(t, q + 2, TrailingTagUnits) = n}
    IN  IF starts = {} THEN text
        ELSE LET q == CHOOSE c \in starts : \A d \in starts : c <= d
                 p == q - SpaceRunBefore(t, q)
             IN  Slice(t, 0, p) \o From(t, q)

-----------------------------------------------------------------------------
(* html.parser.HTMLParser.feed / close, as HTMLParserHelper inherits them: *)
(* the next token of the text fed, and the handler it is given to.         *)

NoAttrs == <<>>

\* One attribute: name alone (its value is None) or name=value.
Attribute(name, none, value) ==
    [name |-> name, none |-> none,
     value |-> IF value = <<>> THEN value ELSE html_unescape(value)]

\* The length of the run of units outside stop from 0-based position pos on.
RECURSIVE RunUntil(_, _, _)
RunUntil(s, pos, stop) ==
    IF pos < Len(s) /\ s[pos + 1] \notin stop
    THEN 1 + RunUntil(s, pos + 1, stop) ELSE 0

RECURSIVE scan_attributes(_, _, _)
\* The attributes of the start tag of feed from 0-based position pos on, up
\* to the ">" that ends the tag: end is the position of that ">" (-1 when the
\* feed ends before it or inside a quoted value), closed says the tag ends
\* with "/>".  A value is quoted ("...", which may hold blanks and ">") or
\* bare (it runs to the next blank or ">").
scan_attributes(feed, pos, attrs) ==
    IF pos >= Len(feed) THEN [end |-> -1, closed |-> FALSE, attrs |-> attrs]
    ELSE IF feed[pos + 1] = ">"
    THEN [end |-> pos, closed |-> FALSE, attrs |-> attrs]
    ELSE IF StartsAt(feed, <<"/", ">">>, pos)
    THEN [end |-> pos + 1, closed |-> TRUE, attrs |-> attrs]
    ELSE IF feed[pos + 1] \in Whitespace \cup {"/"}
    THEN scan_attributes(feed, pos + 1, attrs)
    ELSE LET name_end == pos + 1 + RunUntil(feed, pos + 1,
                                       Whitespace \cup {"/", "=", ">"})
             eq == name_end + SpaceRun(feed, name_end)
             after_eq == eq + ClassRun(feed, eq, {"="})
             val == after_eq + SpaceRun(feed, after_eq)
             name == Slice(feed, pos, name_end)
         IN  IF ~StartsAt(feed, <<"=">>, eq)
             THEN scan_attributes(feed, name_end,
                      Append(attrs, Attribute(name, TRUE, <<>>)))
             ELSE IF StartsAt(feed, <<"\"">>, val)
             THEN LET close == Find(feed, <<"\"">>, val + 1)
                  IN  IF close = -1
                      THEN [end |-> -1, closed |-> FALSE, attrs |-> attrs]
                      ELSE scan_attributes(feed, close + 1,
                               Append(attrs, Attribute(name, FALSE,
                                          Slice(feed, val + 1, close))))
             ELSE LET bare_end ==
                          val + RunUntil(feed, val, Whitespace \cup {">"})
                  IN  scan_attributes(feed, bare_end,
                          Append(attrs, Attribute(name, FALSE,
                                     Slice(feed, val, bare_end))))

\* The name of a tag: the units up to the first blank or "/".
TagName(inner) ==
    Slice(inner, 0, RunUntil(inner, 0, Whitespace \cup {"/"}))

Token(type, tag, attrs, data, rest) ==
    [type |-> type, tag |-> tag, attrs |-> attrs, data |-> data, rest |-> rest]

\* The next token of a non-empty feed: a run of character data (its
\* references replaced), a start tag "<name ...>", an end tag "</name>", or a
\* "<" that opens no tag and is data.  A start tag closed by "/>" goes to
\* handle_starttag and then to handle_endtag.
next_token(feed) ==
    IF feed[1] # "<"
    THEN LET j == Find(feed, <<"<">>, 0)
             e == IF j = -1 THEN Len(feed) ELSE j
         IN  Token("data", <<>>, NoAttrs, html_unescape(Slice(feed, 0, e)),
                   From(feed, e))
    ELSE LET gt == Find(feed, <<">">>, 1)
             name == TagName(Slice(feed, 1, IF gt = -1 THEN Len(feed) ELSE gt))
             tag == scan_attributes(feed, 1 + Len(name), NoAttrs)
         IN  IF Len(feed) >= 2 /\ feed[2] \in Letters
             THEN IF tag.end # -1
                  THEN Token(IF tag.closed THEN "startend" ELSE "start", name,
                             tag.attrs, <<>>, From(feed, tag.end + 1))
                  ELSE IF gt # -1
                  THEN Token("data", <<>>, NoAttrs,
                             html_unescape(Slice(feed, 0, gt + 1)),
                             From(feed, gt + 1))
                  ELSE Token("data", <<>>, NoAttrs, <<"<">>, Tail(feed))
             ELSE IF StartsAt(feed, <<"<", "/">>, 0) /\ gt # -1
             THEN LET inner == lstrip(Slice(feed, 2, gt))
                  IN  IF inner # <<>> /\ inner[1] \in Letters
                      THEN Token("end", TagName(inner), NoAttrs, <<>>,
                                 From(feed, gt + 1))
                      ELSE Token("skip", <<>>, NoAttrs, <<>>, From(feed, gt + 1))
             ELSE Token("data", <<>>, NoAttrs, <<"<">>, Tail(feed))

-----------------------------------------------------------------------------
(* markdown2.py: HTMLParserHelper                                          *)

\* dict(attrs): a name is there / the value of the last attribute of a name.
HasAttr(attrs, name) == \E n \in 1..Len(attrs) : attrs[n].name = name

GetAttr(attrs, name) ==
    attrs[CHOOSE n \in 1..Len(attrs) :
              /\ attrs[n].name = name
              /\ \A m \in (n + 1)..Len(attrs) : attrs[m].name # name]

\* attrs.get(name, ""), for a use that needs a string
GetAttrOrEmpty(attrs, name) ==
    IF HasAttr(attrs, name) /\ ~GetAttr(attrs, name).none
    THEN GetAttr(attrs, name).value ELSE <<>>

\* MENTION_RE.match(url): the digits after "tg://user?id=", <<>> if no match.
MENTION_RE_match(url) ==
    IF StartsAt(url, Str_tg_user, 0)
    THEN Slice(url, Len(Str_tg_user),
               Len(Str_tg_user) + ClassRun(url, Len(Str_tg_user), Digits))
    ELSE <<>>

InputMessageEntityMentionName(offset, length, user_id) ==
    [Entity("InputMentionName", offset, length) EXCEPT !.user_id = user_id]

\* Lines 112-144: the entity a start tag opens at offset; kind "" for a tag
\* the helper does not know, raised when the conversion of line 134 raises.
tag_entity(tag, attrs, offset) ==
    LET made(e) == [raised |-> "", entity |-> e]
        fails(x) == [raised |-> x, entity |-> Entity("", offset, 0)]
    IN  CASE tag \in {Str_b, Str_strong} -> made(Entity("Bold", offset, 0))
          [] tag \in {Str_i, Str_em} -> made(Entity("Italic", offset, 0))
          [] tag = Str_code -> made(Entity("Code", offset, 0))
          [] tag = Str_pre ->
               made(MessageEntityPre(offset, 0, GetAttrOrEmpty(attrs, Str_language)))
          [] tag = Str_spoiler -> made(Entity("Spoiler", offset, 0))
          [] tag = Str_a ->
               LET url == GetAttrOrEmpty(attrs, Str_href)
                   mention == MENTION_RE_match(url)
               IN  IF mention # <<>>
                   THEN made(InputMessageEntityMentionName(offset, 0, int(mention)))
                   ELSE made(MessageEntityTextUrl(offset, 0, url))
          [] tag = Str_emoji ->
               IF ~HasAttr(attrs, Str_document_id)
                  \/ GetAttr(attrs, Str_document_id).none
               THEN fails("TypeError")
               ELSE LET id == int(GetAttr(attrs, Str_document_id).value)
                    IN  IF id = -1 THEN fails("ValueError")
                        ELSE made(MessageEntityCustomEmoji(offset, 0, id))
          [] tag = Str_u -> made(Entity("Underline", offset, 0))
          [] tag \in {Str_s, Str_del, Str_strike} -> made(Entity("Strike", offset, 0))
          [] tag = Str_blockquote ->
               made(MessageEntityBlockquote(offset, 0, HasAttr(attrs, Str_expandable)))
          [] OTHER -> made(Entity("", offset, 0))

\* The stack of in-progress entities of a tag.
OpenOf(h, tag) ==
    IF tag \in DOMAIN h.tag_entities THEN h.tag_entities[tag] ELSE <<>>

\* tag_entities with the stack of tag set to stack; an empty stack is no key.
WithStack(tag_entities, tag, stack) ==
    LET keys == IF stack = <<>> THEN DOMAIN tag_entities \ {tag}
                ELSE DOMAIN tag_entities \cup {tag}
    IN  [t \in keys |-> IF t = tag THEN stack ELSE tag_entities[t]]

\* handle_starttag(tag, attrs)
handle_starttag(h, tag, attrs) ==
    LET made == tag_entity(tag, attrs, Len(h.text))
    IN  IF made.raised # "" THEN [h EXCEPT !.raised = made.raised]
        ELSE IF made.entity.kind = "" THEN h
        ELSE [h EXCEPT !.tag_entities =
                 WithStack(@, tag, Append(OpenOf(h, tag), made.entity))]

\* handle_data(data)
handle_data(h, data) ==
    LET d == html_unescape(data)
        open == h.tag_entities
    IN  [h EXCEPT
           !.tag_entities =
               [t \in DOMAIN open |->
                   [n \in 1..Len(open[t]) |->
                       [open[t][n] EXCEPT !.length = @ + Len(d)]]],
           !.text = @ \o d]

\* handle_endtag(tag)
handle_endtag(h, tag) ==
    LET open == OpenOf(h, tag)
    IN  IF open = <<>> THEN h
        ELSE [h EXCEPT
                !.entities = Append(@, open[Len(open)]),
                !.tag_entities =
                    WithStack(@, tag, SubSeq(open, 1, Len(open) - 1))]

-----------------------------------------------------------------------------
(* markdown2.py: HTMLParser.parse                                          *)

\* a sorts before or with b: by offset alone, or by (offset, -length).
entity_key_le(a, b, by_length) ==
    \/ a.offset < b.offset
    \/ a.offset = b.offset /\ (~by_length \/ a.length >= b.length)

RECURSIVE sort_entities(_, _)
\* sorted(...) / list.sort(...): a stable sort by the key.
sort_entities(es, by_length) ==
    IF es = <<>> THEN <<>>
    ELSE LET front == sort_entities(SubSeq(es, 1, Len(es) - 1), by_length)
             x == es[Len(es)]
             at == IF \E n \in 1..Len(front) :
                         ~entity_key_le(front[n], x, by_length)
                   THEN (CHOOSE n \in 1..Len(front) :
                            /\ ~entity_key_le(front[n], x, by_length)
                            /\ \A m \in 1..(n - 1) :
                                   entity_key_le(front[m], x, by_length)) - 1
                   ELSE Len(front)
         IN  SubSeq(front, 1, at) \o <<x>> \o SubSeq(front, at + 1, Len(front))

\* Lines 179-183: the helper as parse creates it and the text it is fed.
html_start(text) ==
    [text |-> <<>>, entities |-> <<>>, tag_entities |-> <<>>, raised |-> "",
     feed |-> add_surrogate(
                  strip_around_trailing_tag(strip_around_leading_tag(text)))]

\* The helper after the token t of its feed went to its handler.
dispatch(h, t) ==
    LET g == [h EXCEPT !.feed = t.rest]
    IN  CASE t.type = "start" -> handle_starttag(g, t.tag, t.attrs)
          [] t.type = "startend" ->
                 LET o == handle_starttag(g, t.tag, t.attrs)
                 IN  IF o.raised # "" THEN o ELSE handle_endtag(o, t.tag)
          [] t.type = "data" -> handle_data(g, t.data)
          [] t.type = "end" -> handle_endtag(g, t.tag)
          [] OTHER -> g

\* The helper after the next token of its feed went to its handler.
html_step(h) == dispatch(h, next_token(h.feed))

RECURSIVE html_feed(_)
\* parser.feed(...); parser.close()
html_feed(h) ==
    IF h.feed = <<>> \/ h.raised # "" THEN h ELSE html_feed(html_step(h))

\* Lines 186-198: what parse returns; none says the entities are None.
html_parse_result(h) ==
    IF h.raised # ""
    THEN [raised |-> h.raised, text |-> <<>>, entities |-> <<>>, none |-> FALSE]
    ELSE IF ~Decodes(h.text)
    THEN [raised |-> "UnicodeDecodeError", text |-> <<>>, entities |-> <<>>,
          none |-> FALSE]
    ELSE [raised |-> "", text |-> del_surrogate(h.text),
          entities |-> sort_entities(h.entities, FALSE),
          none |-> h.entities = <<>>]

\* HTMLParser.parse(text)
html_parse(text) == html_parse_result(html_feed(html_start(text)))

-----------------------------------------------------------------------------
(* markdown2.py: HTMLParser.unparse                                        *)

OpenTag(name) == <<"<">> \o name \o <<">">>
CloseTag(name) == <<"<", "/">> \o name \o <<">">>

\* "<name attr="value">"
OpenTagWith(name, attr, value) ==
    <<"<">> \o name \o <<" ">> \o attr \o <<"=", "\"">> \o value \o <<"\"", ">">>

\* The kinds unparse has a branch for.  entity.type is read as the kind of
\* the entity.
HtmlKinds ==
    {"Bold", "Italic", "Underline", "Strike", "Spoiler", "Code", "Pre",
     "Blockquote", "TextUrl", "MentionName", "CustomEmoji"}

\* The tag name unparse writes for a kind.
html_tag_of(kind) ==
    CASE kind = "Bold" -> Str_b
      [] kind = "Italic" -> Str_i
      [] kind = "Underline" -> Str_u
      [] kind = "Strike" -> Str_s
      [] kind = "Spoiler" -> Str_spoiler
      [] kind = "Code" -> Str_code
      [] kind = "Pre" -> Str_pre
      [] kind = "Blockquote" -> Str_blockquote
      [] kind = "CustomEmoji" -> Str_tg_emoji
      [] OTHER -> Str_a

\* parse_one(entity): known says a tag pair was returned; raised names the
\* error of reading entity.user of a MentionName, which carries user_id.
parse_one(entity) ==
    LET k == entity.kind
        name == html_tag_of(k)
        start_tag ==
            CASE k = "Pre" /\ entity.language # <<>> ->
                     OpenTagWith(name, Str_language, entity.language)
              [] k = "TextUrl" -> OpenTagWith(name, Str_href, entity.url)
              [] k = "CustomEmoji" ->
                     OpenTagWith(name, Str_document_id,
                                 format_int(entity.document_id))
              [] OTHER -> OpenTag(name)   \* a Blockquote has no "expandable"
    IN  [known |-> k \in HtmlKinds,
         raised |-> IF k = "MentionName" THEN "AttributeError" ELSE "",
         start_tag |-> start_tag, start |-> entity.offset,
         end_tag |-> CloseTag(name), end |-> entity.offset + entity.length]

RECURSIVE html_recursive(_, _)
RECURSIVE html_inside(_, _, _, _)
\* recursive(entity_i), for the 1-based index k: the number of entities
\* parsed and the (tag, at) pairs pushed.
html_recursive(entities, k) ==
    LET this == parse_one(entities[k])
    IN  IF ~this.known THEN [n |-> 1, out |-> <<>>]
        ELSE LET inner == html_inside(entities, k + 1, TRUE, this.end)
             IN  [n |-> inner.next - k,
                  out |-> <<[tag |-> this.start_tag, at |-> this.start]>>
                          \o inner.out
                          \o <<[tag |-> this.end_tag, at |-> this.end]>>]

\* The loop of lines 271-272 (bounded: the next entity starts before end)
\* and the one of lines 285-286 (not bounded).
html_inside(entities, k, bounded, end) ==
    IF k <= Len(entities) /\ (~bounded \/ entities[k].offset < end)
    THEN LET r == html_recursive(entities, k)
             more == html_inside(entities, k + r.n, bounded, end)
         IN  [next |-> more.next, out |-> r.out \o more.out]
    ELSE [next |-> k, out |-> <<>>]

RECURSIVE html_insert(_, _, _)
\* Lines 291-298: the tags are put into the text from the last to the first,
\* the text between a tag and the one after it escaped.
html_insert(text, offsets, last_offset) ==
    IF offsets = <<>> THEN text
    ELSE LET x == offsets[Len(offsets)]
         IN  html_insert(Slice(text, 0, x.at) \o x.tag
                            \o html_escape(Slice(text, x.at, last_offset))
                            \o From(text, last_offset),
                         SubSeq(offsets, 1, Len(offsets) - 1), x.at)

\* HTMLParser.unparse(text, entities); none says entities is None.  The
\* result carries, next to what the call returns or raises, the list the
\* caller passed as it is after the call: line 281 sorts it in place.
html_unparse(text, entities, none) ==
    LET sorted == sort_entities(entities, TRUE)
        offsets == html_inside(sorted, 1, FALSE, 0).out
        out == IF offsets = <<>> THEN add_surrogate(text)
               ELSE html_insert(add_surrogate(text), offsets,
                                offsets[Len(offsets)].at)
    IN  IF none
        THEN [raised |-> "AttributeError", text |-> <<>>, entities |-> entities]
        ELSE IF \E n \in 1..Len(entities) : parse_one(entities[n]).raised # ""
        THEN [raised |-> "AttributeError", text |-> <<>>, entities |-> sorted]
        ELSE IF ~Decodes(out)
        THEN [raised |-> "UnicodeDecodeError", text |-> <<>>, entities |-> sorted]
        ELSE [raised |-> "", text |-> del_surrogate(out), entities |-> sorted]

-----------------------------------------------------------------------------
(* markdown2.py: MarkdownV2.escape_and_create_quotes                       *)

BLOCKQUOTE_DELIM == <<">", ">">>
BLOCKQUOTE_EXPANDABLE_DELIM == <<"^", "^">>
BLOCKQUOTE_EXPANDABLE_END_DELIM == <<"!", "^", "^">>

RECURSIVE splitlines(_)
\* text.splitlines(): the lines of text; a final line break ends the last
\* line and starts none.
splitlines(text) ==
    IF text = <<>> THEN <<>>
    ELSE LET j == Find(text, <<"\n">>, 0)
         IN  IF j = -1 THEN <<text>>
             ELSE <<Slice(text, 0, j)>> \o splitlines(From(text, j + 1))

RECURSIVE join_lines(_)
\* "\n".join(lines)
join_lines(lines) ==
    IF lines = <<>> THEN <<>>
    ELSE IF Len(lines) = 1 THEN lines[1]
    ELSE lines[1] \o <<"\n">> \o join_lines(Tail(lines))

\* s.endswith(sub)
EndsWith(s, sub) == StartsAt(s, sub, Len(s) - Len(sub))

\* line[len(delim) + (1 if line.startswith(delim + " ") else 0):]
strip_delim(line, delim) ==
    From(line, Len(delim) + (IF StartsAt(line, delim \o <<" ">>, 0) THEN 1 ELSE 0))

\* A line of text_lines: none marks the None placeholder.
Line(s) == [none |-> FALSE, line |-> s]
NoLine == [none |-> TRUE, line |-> <<>>]

\* to_quote_list.append((index, parsed_line)); html_escaped_list.append(index)
queue_line(q, index, line, strict) ==
    [q EXCEPT !.queue = Append(@, [index |-> index,
                                   line |-> IF strict THEN html_escape(line)
                                            ELSE line]),
              !.escaped = @ \cup {index}]

\* create_blockquote(expandable): the lines of the queue become one quoted
\* block in the place of the first, the others become None.
create_blockquote(q, expandable) ==
    IF q.queue = <<>> THEN q
    ELSE LET joined == join_lines([n \in 1..Len(q.queue) |-> q.queue[n].line])
             first == q.queue[1].index
             rest == {q.queue[n].index : n \in 2..Len(q.queue)}
             block == (IF expandable
                       THEN <<"<">> \o Str_blockquote \o <<" ">>
                                \o Str_expandable \o <<">">>
                       ELSE OpenTag(Str_blockquote))
                      \o joined \o CloseTag(Str_blockquote)
             \* the writes happen in this order: first, then the rest
             written == [q.lines EXCEPT ![first + 1] = Line(block)]
         IN  [q EXCEPT
                !.lines = [n \in 1..Len(written) |->
                              IF (n - 1) \in rest THEN NoLine ELSE written[n]],
                !.queue = <<>>]

\* One iteration of the loop of lines 340-393 (the expandable quote), for
\* the line of 0-based index.
expandable_step(q, index, strict) ==
    LET line == q.lines[index + 1].line
    IN  IF StartsAt(line, BLOCKQUOTE_EXPANDABLE_DELIM, 0) /\ ~q.inside
        THEN [queue_line(q, index,
                         strip_delim(line, BLOCKQUOTE_EXPANDABLE_DELIM), strict)
                 EXCEPT !.inside = TRUE]
        ELSE IF EndsWith(line, BLOCKQUOTE_EXPANDABLE_END_DELIM) /\ q.inside
        THEN LET l == IF StartsAt(line, BLOCKQUOTE_DELIM, 0)
                      THEN strip_delim(line, BLOCKQUOTE_DELIM) ELSE line
                 stripped ==
                     Slice(l, 0, -Len(BLOCKQUOTE_EXPANDABLE_END_DELIM))
             IN  create_blockquote(
                     [queue_line(q, index, stripped, strict)
                         EXCEPT !.inside = FALSE], TRUE)
        ELSE IF q.inside
        THEN queue_line(q, index, strip_delim(line, BLOCKQUOTE_DELIM), strict)
        ELSE q

\* One iteration of the loop of lines 396-413 (the quote lines).
quote_step(q, index, strict) ==
    LET l == q.lines[index + 1]
    IN  IF l.none THEN q
        ELSE IF StartsAt(l.line, BLOCKQUOTE_DELIM, 0)
        THEN queue_line(q, index, strip_delim(l.line, BLOCKQUOTE_DELIM), strict)
        ELSE IF Len(q.queue) > 0 THEN create_blockquote(q, FALSE)
        ELSE q

RECURSIVE expandable_loop(_, _, _)
expandable_loop(q, index, strict) ==
    IF index >= Len(q.lines) THEN q
    ELSE expandable_loop(expandable_step(q, index, strict), index + 1, strict)

RECURSIVE quote_loop(_, _, _)
\* the loop and its else clause (line 415)
quote_loop(q, index, strict) ==
    IF index >= Len(q.lines) THEN create_blockquote(q, FALSE)
    ELSE quote_loop(quote_step(q, index, strict), index + 1, strict)

\* Lines 417-420: with strict, the lines not escaped yet are escaped.
escape_rest(q, strict) ==
    IF ~strict THEN q
    ELSE [q EXCEPT !.lines =
             [n \in 1..Len(@) |->
                 IF (n - 1) \in q.escaped THEN @[n]
                 ELSE Line(html_escape(@[n].line))]]

RECURSIVE kept_lines(_)
kept_lines(lines) ==
    IF lines = <<>> THEN <<>>
    ELSE (IF Head(lines).none THEN <<>> ELSE <<Head(lines).line>>)
         \o kept_lines(Tail(lines))

\* MarkdownV2.escape_and_create_quotes(text, strict)
escape_and_create_quotes(text, strict) ==
    LET split == splitlines(text)
        q0 == [lines |-> [n \in 1..Len(split) |-> Line(split[n])],
               escaped |-> {}, queue |-> <<>>, inside |-> FALSE]
        q1 == expandable_loop(q0, 0, strict)
        q2 == quote_loop(q1, 0, strict)
    IN  join_lines(kept_lines(escape_rest(q2, strict).lines))

-----------------------------------------------------------------------------
(* markdown2.py: MarkdownV2.parse                                          *)

PRE_DELIM == <<BT, BT, BT>>
CODE_DELIM == <<BT>>
FIXED_WIDTH_DELIMS == {CODE_DELIM, PRE_DELIM}

\* The delimiters in the order MARKDOWN_RE tries them, each with its tag.
V2_DELIMS ==
    << [delim |-> PRE_DELIM,        tag |-> Str_pre],
       [delim |-> CODE_DELIM,       tag |-> Str_code],
       [delim |-> <<"~", "~">>,     tag |-> Str_s],
       [delim |-> <<"-", "-">>,     tag |-> Str_u],
       [delim |-> <<"_", "_">>,     tag |-> Str_i],
       [delim |-> <<"*", "*">>,     tag |-> Str_b],
       [delim |-> <<"|", "|">>,     tag |-> Str_spoiler] >>

NoMatch ==
    [ok |-> FALSE, start |-> 0, end |-> 0, full |-> <<>>, delim |-> <<>>,
     is_emoji |-> FALSE, text_url |-> <<>>, url |-> <<>>]

\* No line break in text[a:b]
OneLine(text, a, b) == \A n \in (a + 1)..b : text[n] # "\n"

\* (!?)\[(.+?)\]\((.+?)\) at pos: "[" label "](" url ")", label and url not
\* empty and free of line breaks, each as short as a match allows.
link_re_match(text, pos) ==
    LET bang == StartsAt(text, <<"!">>, pos)
        b == IF bang THEN pos + 1 ELSE pos        \* where "[" has to be
        url_end(x) ==                              \* the ")" for a label end x
            {y \in (x + 3)..(Len(text) - 1) :
                text[y + 1] = ")" /\ OneLine(text, x + 2, y)}
        label_end == {x \in (b + 2)..(Len(text) - 1) :
                         /\ StartsAt(text, <<"]", "(">>, x)
                         /\ OneLine(text, b + 1, x)
                         /\ url_end(x) # {}}
    IN  IF ~StartsAt(text, <<"[">>, b) \/ label_end = {} THEN NoMatch
        ELSE LET x == CHOOSE c \in label_end : \A d \in label_end : c <= d
                 y == CHOOSE c \in url_end(x) : \A d \in url_end(x) : c <= d
             IN  [ok |-> TRUE, start |-> pos, end |-> y + 1,
                  full |-> Slice(text, pos, y + 1), delim |-> <<>>,
                  is_emoji |-> bang, text_url |-> Slice(text, b + 1, x),
                  url |-> Slice(text, x + 2, y)]

\* MARKDOWN_RE at pos: a delimiter, else a link.
MARKDOWN_RE_match(text, pos) ==
    LET hits == {k \in 1..Len(V2_DELIMS) : StartsAt(text, V2_DELIMS[k].delim, pos)}
    IN  IF hits # {}
        THEN LET k == CHOOSE c \in hits : \A d \in hits : c <= d
             IN  [NoMatch EXCEPT !.ok = TRUE, !.start = pos,
                                 !.end = pos + Len(V2_DELIMS[k].delim),
                                 !.full = V2_DELIMS[k].delim,
                                 !.delim = V2_DELIMS[k].delim]
        ELSE link_re_match(text, pos)

RECURSIVE MARKDOWN_RE_finditer(_, _)
\* re.finditer(MARKDOWN_RE, text): the matches from pos on, left to right.
MARKDOWN_RE_finditer(text, pos) ==
    IF pos >= Len(text) THEN <<>>
    ELSE LET m == MARKDOWN_RE_match(text, pos)
         IN  IF m.ok THEN <<m>> \o MARKDOWN_RE_finditer(text, m.end)
             ELSE MARKDOWN_RE_finditer(text, pos + 1)

\* source[start:].replace(old, new, 1) after source[:start]
replace_once(source, old, new, start) ==
    LET at == Find(source, old, SliceIndex(source, start))
    IN  IF at = -1 THEN source
        ELSE Slice(source, 0, at) \o new \o From(source, at + Len(old))

Str_tg_emoji_id == <<"t", "g", ":", "/", "/", "e", "m", "o", "j", "i", "?", "i", "d", "=">>

RECURSIVE lstrip_units(_, _)
\* s.lstrip(chars)
lstrip_units(s, chars) ==
    IF s # <<>> /\ Head(s) \in chars THEN lstrip_units(Tail(s), chars) ELSE s

\* URL_MARKUP.format(url, text): <a href="url">text</a>
URL_MARKUP(url, text) ==
    OpenTagWith(Str_a, Str_href, url) \o text \o CloseTag(Str_a)

\* EMOJI_MARKUP.format(id, text): <tg-emoji document_id=id>text</tg-emoji>
EMOJI_MARKUP(id, text) ==
    <<"<">> \o Str_tg_emoji \o <<" ">> \o Str_document_id \o <<"=">> \o id
        \o <<">">> \o text \o CloseTag(Str_tg_emoji)

\* The tag of a delimiter of V2_DELIMS.
v2_tag_of(delim) ==
    V2_DELIMS[CHOOSE k \in 1..Len(V2_DELIMS) : V2_DELIMS[k].delim = delim].tag

\* One iteration of the loop of lines 432-489, for the match m found in the
\* text as it was before the loop; t holds text, delims and is_fixed_width.
toggle_step(t, m) ==
    LET full == m.full
        fixed == IF m.delim \in FIXED_WIDTH_DELIMS
                 THEN ~t.is_fixed_width ELSE t.is_fixed_width
        t1 == [t EXCEPT !.is_fixed_width = fixed]
        opens == m.delim \notin t.delims
        tag == IF opens THEN OpenTag(v2_tag_of(m.delim))
               ELSE CloseTag(v2_tag_of(m.delim))
        t2 == [t1 EXCEPT !.delims = IF opens THEN @ \cup {m.delim}
                                    ELSE @ \ {m.delim}]
    IN  IF fixed /\ m.delim \notin FIXED_WIDTH_DELIMS THEN t1
        ELSE IF m.delim = <<>> /\ ~m.is_emoji
        THEN [t1 EXCEPT !.text =
                 replace_once(@, full, URL_MARKUP(m.url, m.text_url), m.start)]
        ELSE IF m.delim = <<>>
        THEN [t1 EXCEPT !.text =
                 replace_once(@, full,
                     EMOJI_MARKUP(lstrip_units(m.url,
                                      {Str_tg_emoji_id[n] :
                                          n \in 1..Len(Str_tg_emoji_id)}),
                                  m.text_url),
                     m.start)]
        ELSE IF m.delim = PRE_DELIM /\ opens
        THEN LET from_delim == From(t2.text, Find(t2.text, PRE_DELIM, 0))
                 nl == Find(from_delim, <<"\n">>, 0)
                 delim_and_language ==
                     IF nl = -1 THEN from_delim ELSE Slice(from_delim, 0, nl)
                 language == From(delim_and_language, Len(PRE_DELIM))
             IN  [t2 EXCEPT !.text =
                     replace_once(@, delim_and_language,
                         OpenTagWith(Str_pre, Str_language, language), m.start)]
        ELSE [t2 EXCEPT !.text = replace_once(@, m.delim, tag, m.start)]

RECURSIVE toggle_loop(_, _)
toggle_loop(t, matches) ==
    IF matches = <<>> THEN t
    ELSE toggle_loop(toggle_step(t, Head(matches)), Tail(matches))

\* Lines 428-489: the HTML markup MarkdownV2.parse hands to HTMLParser.parse.
v2_rewrite(text, strict) ==
    LET quoted == escape_and_create_quotes(text, strict)
    IN  toggle_loop([text |-> quoted, delims |-> {}, is_fixed_width |-> FALSE],
                    MARKDOWN_RE_finditer(quoted, 0)).text

\* MarkdownV2.parse(text, strict)
v2_parse(text, strict) == html_parse(v2_rewrite(text, strict))

-----------------------------------------------------------------------------
(* The inputs of the HTML and MarkdownV2 calls                             *)

MaxHtml == 3          \* pieces of an HTML string built from every HTML piece
MaxLines == 3         \* lines of a MarkdownV2 text

Str_amp_lt == <<"&", "l", "t", ";">>
Str_amp_amp == <<"&", "a", "m", "p", ";">>

\* <emoji document_id="1">
EmojiTag == OpenTagWith(Str_emoji, Str_document_id, <<"1">>)

\* <blockquote expandable>
ExpandableTag ==
    <<"<">> \o Str_blockquote \o <<" ">> \o Str_expandable \o <<">">>

\* The start tags of the tag table, with and without their attributes.
StartTags ==
    {OpenTag(n) : n \in {Str_b, Str_strong, Str_i, Str_em, Str_code, Str_pre,
                         Str_spoiler, Str_a, Str_emoji, Str_u, Str_s, Str_del,
                         Str_strike, Str_blockquote}}
    \cup {OpenTagWith(Str_pre, Str_language, <<"p">>),
          OpenTagWith(Str_a, Str_href, <<"u">>),
          OpenTagWith(Str_a, Str_href, Str_tg_user \o <<"5">>),
          EmojiTag,
          OpenTagWith(Str_emoji, Str_document_id, <<"x">>),
          OpenTagWith(Str_tg_emoji, Str_document_id, <<"1">>),
          ExpandableTag}

\* The end tag that closes a start tag.
EndTagOf(start) ==
    CloseTag(TagName(Slice(start, 1, Find(start, <<">">>, 0))))

\* Character data free of outer blanks: letters, a blank, an astral
\* character, and the references of "<" and "&".
HtmlData ==
    {<<"x">>, <<"x", " ", "y">>, <<ASTRAL>>, <<"x">> \o Str_amp_lt \o <<"y">>,
     Str_amp_amp, <<"b", "o", "l", "d">>}

HtmlPieces ==
    {OpenTag(Str_b), CloseTag(Str_b), OpenTag(Str_i), CloseTag(Str_i),
     <<"a">>, <<" ">>, Str_amp_lt, <<"<">>, <<"<", "/", ">">>}

\* The markup strings HTMLParser.parse is called with.
HtmlInputs ==
    Words(HtmlPieces, MaxHtml)
    \cup {t \o d : t \in StartTags, d \in HtmlData}
    \cup {t \o d \o EndTagOf(t) : t \in StartTags, d \in HtmlData}
    \cup {OpenTag(Str_b) \o c \o CloseTag(Str_b) \o t \o d :
             t \in StartTags, c \in {<<"x">>}, d \in HtmlData}
    \cup {OpenTag(Str_b) \o <<"a">> \o OpenTag(Str_i) \o <<"b">>
              \o CloseTag(Str_i) \o <<"c">> \o CloseTag(Str_b),
          OpenTag(Str_b) \o OpenTag(Str_i) \o <<"x">> \o CloseTag(Str_i)
              \o <<"y">> \o CloseTag(Str_b),
          OpenTag(Str_code) \o OpenTag(Str_b) \o <<"x">> \o CloseTag(Str_b)
              \o CloseTag(Str_code),
          OpenTag(Str_pre) \o OpenTag(Str_i) \o <<"x">> \o CloseTag(Str_i)
              \o <<"y">> \o CloseTag(Str_pre),
          OpenTag(Str_b) \o <<" ", "x">>,
          OpenTag(Str_b) \o <<"/", ">", "x">>,
          <<"<", "b", "/", ">">>}

\* The lines of a MarkdownV2 text: quote lines with and without the blank
\* after the prefix, plain lines, an empty line, and the two markers of the
\* expandable quote.
V2Lines ==
    {<<">", ">", " ", "a">>, <<">", ">", "b">>, <<"x">>, <<>>,
     <<"^", "^", " ", "c">>, <<"d", "!", "^", "^">>}

RECURSIVE LineLists(_)
LineLists(n) ==
    IF n = 0 THEN {<<>>}
    ELSE LET L == LineLists(n - 1)
         IN  L \cup {Append(l, x) : l \in L, x \in V2Lines}

\* The texts MarkdownV2.parse is called with.
V2Inputs ==
    {join_lines(l) : l \in LineLists(MaxLines)}
    \cup {<<"*", "*", "a", "*", "*">>, <<"-", "-", "a", "-", "-">>,
          <<BT, "a", " ", "*", "*", "b", "*", "*", " ", "c", BT>>,
          <<BT, BT, BT, "p", "\n", "c", BT, BT, BT>>,
          <<BT, BT, BT, "c", BT, BT, BT>>,
          <<BT, "*", "*", BT, " ", "*", "*", "x", "*", "*">>,
          <<BT, "a", BT, BT, BT, "b", BT>>,
          <<BT, BT, BT, "a", BT, "b", BT, BT, BT>>,
          <<"[", "t", "]", "(", "u", ")">>,
          <<"!", "[", "e", "]", "(">> \o Str_tg_emoji_id \o <<"5", ")">>,
          <<">", ">", " ", "*", "*", "a", "\n", ">", ">", " ", "b", "*", "*">>}

MaxHtmlOffset == 2    \* greatest offset of an entity handed to HTMLParser.unparse
MaxHtmlLength == 2    \* greatest length of such an entity

\* The texts HTMLParser.unparse is called with by a caller that did not get
\* them from parse: with and without the characters html.escape replaces.
HtmlUnparseTexts ==
    {<<"a", "b", "c">>, <<"<", "a", ">">>, <<"&", "a", "<", "b">>,
     <<"a", ASTRAL>>}

\* MessageEntityUrl, a kind parse_one has no tag for
MessageEntityUrl(offset, length) == Entity("Url", offset, length)

HtmlUnparseEntities ==
    {Entity(k, o, l) : k \in {"Bold", "Italic", "Url"},
                       o \in 0..MaxHtmlOffset, l \in 1..MaxHtmlLength}
    \cup {MessageEntityBlockquote(0, 1, TRUE), MessageEntityCustomEmoji(0, 1, 1),
          MessageEntityPre(0, 1, <<"p">>), MessageEntityTextUrl(0, 1, <<"u">>),
          MessageEntityMentionName(0, 1, 5)}

\* Lists of up to two entities, and of three where the first has no tag.
HtmlUnparseEntityLists ==
    {<<>>} \cup {<<e>> : e \in HtmlUnparseEntities}
    \cup {<<e, f>> : e \in HtmlUnparseEntities, f \in HtmlUnparseEntities}
    \cup {<<MessageEntityUrl(o, 1), e, f>> :
             o \in 0..1, e \in HtmlUnparseEntities, f \in HtmlUnparseEntities}

-----------------------------------------------------------------------------
(* The calls of the HTML and MarkdownV2 dialects                           *)

\* The helper h becomes the helper of the running call; a handler that
\* raised ends the call.
HelperBecomes(h) ==
    /\ hp' = h
    /\ IF h.raised # ""
       THEN pc' = "html_raised" /\ ret' = html_parse_result(h)
       ELSE pc' = "html_feed" /\ ret' = ret
    /\ UNCHANGED <<arg, message, i, result>>

\* HTMLParser.parse(m) is called: lines 179-183, up to the feed.
html_parse_call ==
    /\ pc = "idle"
    /\ \E m \in HtmlInputs :
          /\ arg' = [call |-> "html_parse", markup |-> m, text |-> <<>>,
                     entities |-> <<>>, none |-> FALSE]
          /\ hp' = html_start(m)
    /\ pc' = "html_feed"
    /\ ret' = NoReturn
    /\ UNCHANGED <<message, i, result>>
    /\ UNCHANGED others

\* MarkdownV2.parse(m) is called: lines 428-489 rewrite the text, line 491
\* hands it to HTMLParser.parse.
v2_parse_call ==
    /\ pc = "idle"
    /\ \E m \in V2Inputs :
          /\ arg' = [call |-> "v2_parse", markup |-> m, text |-> <<>>,
                     entities |-> <<>>, none |-> FALSE]
          /\ hp' = html_start(v2_rewrite(m, FALSE))
    /\ pc' = "html_feed"
    /\ ret' = NoReturn
    /\ UNCHANGED <<message, i, result>>
    /\ UNCHANGED others

\* The feed reaches a start tag: handle_starttag (and handle_endtag right
\* after it when the tag ends with "/>").
html_handle_starttag ==
    /\ pc = "html_feed" /\ hp.feed # <<>>
    /\ \E t \in {next_token(hp.feed)} :
          /\ t.type \in {"start", "startend"}
          /\ \E h \in {dispatch(hp, t)} : HelperBecomes(h)
    /\ UNCHANGED others

\* The feed reaches character data: handle_data.
html_handle_data ==
    /\ pc = "html_feed" /\ hp.feed # <<>>
    /\ \E t \in {next_token(hp.feed)} :
          /\ t.type = "data"
          /\ \E h \in {dispatch(hp, t)} : HelperBecomes(h)
    /\ UNCHANGED others

\* The feed reaches an end tag: handle_endtag.
html_handle_endtag ==
    /\ pc = "html_feed" /\ hp.feed # <<>>
    /\ \E t \in {next_token(hp.feed)} :
          /\ t.type = "end"
          /\ \E h \in {dispatch(hp, t)} : HelperBecomes(h)
    /\ UNCHANGED others

\* The feed reaches an end tag without a name, which no handler gets.
html_skip_endtag ==
    /\ pc = "html_feed" /\ hp.feed # <<>>
    /\ \E t \in {next_token(hp.feed)} :
          /\ t.type = "skip"
          /\ \E h \in {dispatch(hp, t)} : HelperBecomes(h)
    /\ UNCHANGED others

\* The feed has ended: lines 184-198.
html_parse_return ==
    /\ pc = "html_feed" /\ hp.feed = <<>>
    /\ pc' = "html_parsed"
    /\ ret' = html_parse_result(hp)
    /\ UNCHANGED <<arg, message, i, result, hp>>
    /\ UNCHANGED others

\* HTMLParser.unparse is called with what HTMLParser.parse has just returned.
html_unparse_parsed ==
    /\ pc = "html_parsed" /\ arg.call = "html_parse"
    /\ pc' = "html_unparsed"
    /\ arg' = [call |-> "html_unparse_parsed", markup |-> arg.markup,
               text |-> ret.text, entities |-> ret.entities, none |-> ret.none]
    /\ ret' = html_unparse(ret.text, ret.entities, ret.none)
    /\ UNCHANGED <<message, i, result, hp>>
    /\ UNCHANGED others

\* HTMLParser.unparse is called by a caller with a text and entities of its
\* own.
html_unparse_call ==
    /\ pc = "idle"
    /\ \E t \in HtmlUnparseTexts, es \in HtmlUnparseEntityLists :
          /\ arg' = [call |-> "html_unparse", markup |-> <<>>, text |-> t,
                     entities |-> es, none |-> FALSE]
          /\ ret' = html_unparse(t, es, FALSE)
    /\ pc' = "html_unparsed"
    /\ UNCHANGED <<message, i, result, hp>>
    /\ UNCHANGED others

MaxCodepoints == 4    \* codepoints of a string handed to Vars.add_surrogates

\* Well-formed strings: codepoints below and above 0x10000, no surrogate
\* code unit on its own.
WellFormedTexts == Words({<<"a">>, <<"<">>, <<ASTRAL>>}, MaxCodepoints)

\* Vars.add_surrogates(t) is called with a well-formed string.
add_surrogates_call ==
    /\ pc = "idle"
    /\ \E t \in WellFormedTexts :
          /\ arg' = [call |-> "add_surrogates", markup |-> <<>>, text |-> t,
                     entities |-> <<>>, none |-> FALSE]
          /\ ret' = [raised |-> "", text |-> add_surrogate(t),
                     entities |-> <<>>, none |-> FALSE]
    /\ pc' = "surrogates_added"
    /\ UNCHANGED <<message, i, result, hp>>
    /\ UNCHANGED others

\* Vars.remove_surrogates is called with what Vars.add_surrogates returned.
remove_surrogates_call ==
    /\ pc = "surrogates_added"
    /\ pc' = "surrogates_removed"
    /\ ret' = IF Decodes(ret.text)
              THEN [ret EXCEPT !.text = del_surrogate(ret.text)]
              ELSE [ret EXCEPT !.raised = "UnicodeDecodeError", !.text = <<>>]
    /\ UNCHANGED <<arg, message, i, result, hp>>
    /\ UNCHANGED others

NextHtml ==
    \/ html_parse_call
    \/ add_surrogates_call
    \/ remove_surrogates_call
    \/ html_unparse_call
    \/ v2_parse_call
    \/ html_handle_starttag
    \/ html_handle_data
    \/ html_handle_endtag
    \/ html_skip_endtag
    \/ html_parse_return
    \/ html_unparse_parsed

SpecHtml == Init /\ [][NextHtml]_vars

-----------------------------------------------------------------------------
(* Claims about the HTML and MarkdownV2 dialects                           *)

\* HTMLParser.parse has returned and its result was handed to
\* HTMLParser.unparse, which returned or raised.
HtmlRoundTripped == pc = "html_unparsed" /\ arg.call = "html_unparse_parsed"

\* C2: HTML round trip.  Whenever HTMLParser.parse(m) returned
\* (text, entities), HTMLParser.unparse(text, entities) returns a markup that
\* HTMLParser.parse reads back as the same text and the same set of entities:
\* a Blockquote with collapsed=true comes back collapsed, a CustomEmoji comes
\* back with its document_id, and "<", ">", "&" of the text come back as they
\* were.
C2_HtmlRoundTrip ==
    HtmlRoundTripped =>
        /\ ret.raised = ""
        /\ LET again == html_parse(ret.text)
           IN  /\ again.raised = ""
               /\ again.text = arg.text
               /\ EntitySet(again.entities) = EntitySet(arg.entities)

\* MarkdownV2.parse(m) has returned.
V2Parsed == pc = "html_parsed" /\ arg.call = "v2_parse"

\* A line that begins with ">>".
IsQuoteLine(line) == StartsAt(line, BLOCKQUOTE_DELIM, 0)

\* The maximal runs <<a, b>> of consecutive lines that each begin with ">>".
QuoteRuns(lines) ==
    {r \in (1..Len(lines)) \X (1..Len(lines)) :
        /\ r[1] <= r[2]
        /\ \A n \in r[1]..r[2] : IsQuoteLine(lines[n])
        /\ r[1] = 1 \/ ~IsQuoteLine(lines[r[1] - 1])
        /\ r[2] = Len(lines) \/ ~IsQuoteLine(lines[r[2] + 1])}

\* The lines a..b without their ">>" prefix, joined by line breaks.
QuotedText(lines, a, b) ==
    join_lines([n \in 1..(b - a + 1) |->
                   strip_delim(lines[a + n - 1], BLOCKQUOTE_DELIM)])

\* The entities of es that are Blockquotes with collapsed = false.
PlainQuotes(es) ==
    {n \in 1..Len(es) : es[n].kind = "Blockquote" /\ ~es[n].collapsed}

\* The entity es[n] covers exactly the slice quoted of text.
Covers(es, n, text, quoted) ==
    Slice(text, es[n].offset, es[n].offset + es[n].length) = quoted

\* C6: MarkdownV2 blockquote collapsing.  When MarkdownV2.parse returns, every
\* maximal run of consecutive lines that begin with ">>" has become one
\* Blockquote with collapsed = false that covers the lines of the run without
\* their prefix, joined by line breaks; different runs have different
\* Blockquotes, so two runs separated by a non-quote line give two entities.
C6_QuoteRunsCollapse ==
    V2Parsed =>
        LET lines == splitlines(arg.markup)
            runs == QuoteRuns(lines)
            text == add_surrogate(ret.text)
            quotes == PlainQuotes(ret.entities)
        IN  /\ ret.raised = ""
            /\ \E f \in [runs -> quotes] :
                  /\ \A r, q \in runs : f[r] = f[q] => r = q
                  /\ \A r \in runs :
                        Covers(ret.entities, f[r], text,
                               add_surrogate(QuotedText(lines, r[1], r[2])))

\* HTMLParser.parse(m) has returned or raised.
HtmlParseEnded == pc \in {"html_parsed", "html_raised"} /\ arg.call = "html_parse"

\* <b>x</b>
ClosedBold == OpenTag(Str_b) \o <<"x">> \o CloseTag(Str_b)

\* C9: HTML unclosed-tag recovery.  For every start tag t of the tag table
\* and character data d, HTMLParser.parse(t + d), where t is never closed,
\* completes without raising, returns all of d as the text and no entity for
\* t; and HTMLParser.parse("<b>x</b>" + t + d) still returns the Bold entity
\* of the tag that was closed, and nothing for t.
C9_UnclosedTagRecovery ==
    \A t \in StartTags, d \in HtmlData :
        /\ (HtmlParseEnded /\ arg.markup = t \o d) =>
              /\ ret.raised = ""
              /\ ret.text = html_unescape(d)
              /\ ret.entities = <<>>
        /\ (HtmlParseEnded /\ arg.markup = ClosedBold \o t \o d) =>
              /\ ret.raised = ""
              /\ ret.text = <<"x">> \o html_unescape(d)
              /\ ret.entities = <<Entity("Bold", 0, 1)>>

-----------------------------------------------------------------------------
(* Claims about the spans of the entities                                  *)

\* The end of the span of an entity.
EndOf(e) == e.offset + e.length

\* The spans of a and b overlap without one holding the other.
PartlyOverlap(a, b) ==
    /\ a.offset < b.offset
    /\ b.offset < EndOf(a)
    /\ EndOf(a) < EndOf(b)

\* The spans of es form a laminar family: any two are disjoint or nested.
Laminar(es) ==
    \A m, n \in 1..Len(es) : ~PartlyOverlap(es[m], es[n])

\* C11: the entities markdown.parse returns form a laminar family: the spans
\* of any two of them are disjoint or one holds the other, also when the
\* delimiters of the input interleave as in "**a __b** c__".
C11_ParsedEntitiesLaminar ==
    pc = "md_parsed" => Laminar(ret.entities)

-----------------------------------------------------------------------------
(* Claims about the results of the calls                                   *)

\* C12: empty input to parse.  markdown.parse, HTMLParser.parse and
\* MarkdownV2.parse, called with the empty string, return the empty string
\* and an entity sequence of length 0, a sequence and not an absent value.
C12_EmptyInputParsed ==
    /\ (pc = "md_parsed" /\ arg.markup = <<>>) =>
          /\ ret.raised = ""
          /\ ret.text = <<>>
          /\ ret.entities = <<>>
    /\ (pc \in {"html_parsed", "html_raised"}
        /\ arg.call \in {"html_parse", "v2_parse"} /\ arg.markup = <<>>) =>
          /\ ret.raised = ""
          /\ ret.text = <<>>
          /\ ret.entities = <<>>
          /\ ~ret.none

-----------------------------------------------------------------------------
(* Claims about unparse                                                    *)

\* markdown.unparse was called by a caller with a list of its own.
MdUnparsed == pc = "md_unparsed" /\ arg.call = "md_unparse"

\* HTMLParser.unparse was called by a caller with a list of its own.
HtmlUnparsed == pc = "html_unparsed" /\ arg.call = "html_unparse"

\* The kind of the entity has a delimiter or a link form in markdown.unparse.
MdSupported(e) == REVERSE_DELIMITERS(e.kind) # <<>> \/ unparse_url(e) # <<>>

\* The kind of the entity has a tag in HTMLParser.unparse.
HtmlSupported(e) == parse_one(e).known

\* C13: unsupported entity kinds are skipped by unparse.  Whatever text and
\* entity list markdown.unparse or HTMLParser.unparse is given, the call does
\* not fail on an entity whose kind the dialect cannot write, and its output
\* is the output for the same list without those entities (the text itself
\* when no entity is left).
C13_UnsupportedSkipped ==
    /\ MdUnparsed =>
          /\ ret.raised = ""
          /\ ret.text
               = markdown_unparse(arg.text,
                                  SelectSeq(arg.entities, MdSupported)).text
    /\ HtmlUnparsed =>
          LET kept == SelectSeq(arg.entities, HtmlSupported)
          IN  /\ (ret.raised # "") => html_unparse(arg.text, kept, FALSE).raised # ""
              /\ ret.text = html_unparse(arg.text, kept, FALSE).text

\* C14: no state is shared between codec calls.  The entity list a caller
\* passes to HTMLParser.unparse holds, after the call, the same entities in
\* the same order as before it.
C14_ArgumentsUnchanged ==
    pc = "html_unparsed" => ret.entities = arg.entities

-----------------------------------------------------------------------------
(* Claims about the offsets markdown.parse computes                        *)

\* "```" + lang + "\n" + code + "```" + tail
PreMarkup(lang, code, tail) ==
    <<BT, BT, BT>> \o lang \o <<"\n">> \o code \o <<BT, BT, BT>> \o tail

\* C15: Pre with a language tag.  markdown.parse("```p\n" + code + "```" +
\* tail) returns a Pre entity that carries the language "p", starts at 0 and
\* whose length is exactly the number of units of code; and a Bold recorded
\* around such a Pre is shortened by the language and its line break too:
\* "**a ```p\nc``` x** y" gives Bold(0, 5) and Pre(2, 1, "p") over "a c x y".
C15_PreLanguageLength ==
    /\ \A code \in {<<"c">>, <<"c", "d">>}, tail \in PreTails :
          (pc = "md_parsed" /\ arg.markup = PreMarkup(<<"p">>, code, tail)) =>
              /\ ret.raised = ""
              /\ MessageEntityPre(0, Len(code), <<"p">>) \in EntitySet(ret.entities)
    /\ (pc = "md_parsed" /\ arg.markup = BoldAroundPre) =>
          /\ ret.text = <<"a", " ", "c", " ", "x", " ", "y">>
          /\ ret.entities = <<Entity("Bold", 0, 5), MessageEntityPre(2, 1, <<"p">>)>>

\* The units of the working text that entity e covers.
SpanOf(msg, e) == Slice(msg, e.offset, e.offset + e.length)

\* What a recorded entity of the nested inputs has to cover: the "b" of the
\* innermost pair or link, or a stretch from the "a" after an opening
\* delimiter to the "c" before its closing one, without the "x" and "y"
\* around the markup.
CoversOwnContent(s) ==
    \/ s = <<"b">>
    \/ /\ Len(s) >= 2
       /\ s[1] = "a" /\ s[Len(s)] = "c"
       /\ \A n \in 1..Len(s) : s[n] \notin {"x", "y"}

\* The entity of the inner markup (a pair around "b" or a link), at offset.
InnerEntity(inner, offset) ==
    IF inner[1] = "[" THEN MessageEntityTextUrl(offset, 1, <<"u">>)
    ELSE EntityOfDelimiter(Slice(inner, 0, (Len(inner) - 1) \div 2), offset, 1)

\* The delimiter opens a span in which nothing is matched.
IsFixedWidth(d) == d[1] = BT

OpeningToken(e) == insertions_of(e, 0, 1)[1][3]
ClosingToken(e) == insertions_of(e, 0, 1)[2][3]

\* a comes before b in the order (offset ascending, length descending).
OrderedBefore(a, b) ==
    a.offset < b.offset \/ (a.offset = b.offset /\ a.length >= b.length)

\* The text with the tokens of a and, inside it, of b in bracket order.
NestedTokens(t, a, b) ==
    Slice(t, 0, a.offset) \o OpeningToken(a)
        \o Slice(t, a.offset, b.offset) \o OpeningToken(b)
        \o Slice(t, b.offset, EndOf(b)) \o ClosingToken(b)
        \o Slice(t, EndOf(b), EndOf(a)) \o ClosingToken(a) \o From(t, EndOf(a))

\* The text with the tokens of a and, after it, of b.
SiblingTokens(t, a, b) ==
    Slice(t, 0, a.offset) \o OpeningToken(a)
        \o Slice(t, a.offset, EndOf(a)) \o ClosingToken(a)
        \o Slice(t, EndOf(a), b.offset) \o OpeningToken(b)
        \o Slice(t, b.offset, EndOf(b)) \o ClosingToken(b) \o From(t, EndOf(b))

\* markdown.unparse was given two entities it can write, within the text, in
\* the order (offset ascending, length descending), nested or disjoint.
TwoLaminarEntities ==
    /\ MdUnparsed
    /\ Len(arg.entities) = 2
    /\ \A n \in 1..2 : /\ MdSupported(arg.entities[n])
                       /\ EndOf(arg.entities[n]) <= Len(arg.text)
    /\ \A n \in 1..Len(arg.text) : arg.text[n] # ASTRAL
    /\ OrderedBefore(arg.entities[1], arg.entities[2])
    /\ Laminar(arg.entities)

\* C17: markdown.unparse produces well-nested tokens.  For a text and a
\* laminar list of two entities in the order (offset ascending, length
\* descending), the tokens follow bracket discipline: the tokens of the inner
\* entity are inside those of the outer one, also where both start or end at
\* the same position, and where the first entity ends at the position at
\* which the second starts its closing token comes before the opening token
\* of the second: Bold(0, 2), Italic(2, 2) over "abcd" gives "**ab**__cd__".
C17_TokensWellNested ==
    TwoLaminarEntities =>
        LET a == arg.entities[1]
            b == arg.entities[2]
        IN  /\ ret.raised = ""
            /\ ret.text = IF EndOf(a) <= b.offset
                          THEN SiblingTokens(arg.text, a, b)
                          ELSE NestedTokens(arg.text, a, b)

-----------------------------------------------------------------------------
(* Claims about the HTML dialect, continued                                *)

\* C18: the entities HTMLParser.parse returns are in the order (offset
\* ascending, length descending): of two entities that start at the same
\* offset the longer, outer one comes first, so "<b><i>x</i>y</b>" gives
\* Bold(0, 2) before Italic(0, 1).
C18_ParsedEntitiesOrdered ==
    (pc = "html_parsed" /\ arg.call = "html_parse") =>
        \A m, n \in 1..Len(ret.entities) :
            m < n => OrderedBefore(ret.entities[m], ret.entities[n])

RECURSIVE without_tags(_)
\* The markup s without its tags: every stretch from a "<" to the next ">"
\* is left out (a "<" with no ">" after it stays).
without_tags(s) ==
    IF s = <<>> THEN <<>>
    ELSE IF s[1] = "<" /\ Find(s, <<">">>, 1) # -1
    THEN without_tags(From(s, Find(s, <<">">>, 1) + 1))
    ELSE <<s[1]>> \o without_tags(Tail(s))

\* C19: HTMLParser.unparse escapes the text.  When HTMLParser.unparse returns
\* a markup, every "<", ">" and "&" of the text is written as a character
\* reference, inside the entities, between them, before the first tag and
\* after the last one: the markup without its tags is the escaped text.
C19_UnparseEscapesText ==
    (HtmlUnparsed /\ ret.raised = "") =>
        without_tags(ret.text) = html_escape(arg.text)


-----------------------------------------------------------------------------
(* Claims about the MarkdownV2 dialect, continued                          *)

\* The state of the loop of lines 432-489 before its n-th match.
toggle_before(text, n) ==
    toggle_loop([text |-> text, delims |-> {}, is_fixed_width |-> FALSE],
                SubSeq(MARKDOWN_RE_finditer(text, 0), 1, n - 1))

\* The matches strictly inside the first fixed-width region of the text:
\* after its first ` or ``` match and before the next match of that same
\* delimiter (to the last match when there is none).
InFirstRegion(text) ==
    LET ms == MARKDOWN_RE_finditer(text, 0)
        fixed == {n \in 1..Len(ms) : ms[n].delim \in FIXED_WIDTH_DELIMS}
    IN  IF fixed = {} THEN {}
        ELSE LET open == CHOOSE n \in fixed : \A k \in fixed : n <= k
                 close == {n \in fixed : n > open /\ ms[n].delim = ms[open].delim}
             IN  {n \in (open + 1)..Len(ms) : \A c \in close : n < c}

\* C20: fixed-width suppression in the toggle rewrite of MarkdownV2.parse.
\* Between the delimiter that opens a Code or Pre region and the next
\* occurrence of that same delimiter, every other delimiter token (a single
\* ` inside a ``` block and a ``` inside a ` span included) is left as
\* literal characters and changes neither the toggle set nor the fixed-width
\* flag; and the rewrite of a later delimiter never replaces a skipped
\* occurrence: the text between a pair of ` comes out as the text of a Code
\* entity.
C20_FixedWidthSuppressed ==
    V2Parsed =>
        LET text == escape_and_create_quotes(arg.markup, FALSE)
            ms == MARKDOWN_RE_finditer(text, 0)
        IN  /\ \A n \in InFirstRegion(text) :
                  toggle_step(toggle_before(text, n), ms[n])
                      = toggle_before(text, n)
            /\ \A n \in 1..Len(ms) :
                  (/\ ms[1].delim = CODE_DELIM
                   /\ ms[n].delim = CODE_DELIM
                   /\ InFirstRegion(text) = 2..(n - 1))
                  => \E k \in 1..Len(ret.entities) :
                        /\ ret.entities[k].kind = "Code"
                        /\ SpanOf(ret.text, ret.entities[k])
                              = Slice(text, ms[1].end, ms[n].start)


\* The lines are one expandable block: the first begins with "^^", the last
\* ends with "!^^", and no line between them bears a marker.
IsExpandableBlock(lines) ==
    /\ Len(lines) >= 2
    /\ StartsAt(lines[1], BLOCKQUOTE_EXPANDABLE_DELIM, 0)
    /\ EndsWith(lines[Len(lines)], BLOCKQUOTE_EXPANDABLE_END_DELIM)
    /\ \A n \in 2..(Len(lines) - 1) :
          /\ ~StartsAt(lines[n], BLOCKQUOTE_EXPANDABLE_DELIM, 0)
          /\ ~EndsWith(lines[n], BLOCKQUOTE_EXPANDABLE_END_DELIM)

\* A line without its ">>" prefix, when it has one.
WithoutQuotePrefix(line) ==
    IF IsQuoteLine(line) THEN strip_delim(line, BLOCKQUOTE_DELIM) ELSE line

\* The text an expandable block quotes: its lines without the start marker,
\* the end marker and the ">>" prefixes, joined by line breaks.
ExpandableText(lines) ==
    join_lines([n \in 1..Len(lines) |->
        IF n = 1 THEN strip_delim(lines[n], BLOCKQUOTE_EXPANDABLE_DELIM)
        ELSE IF n = Len(lines)
        THEN Slice(WithoutQuotePrefix(lines[n]), 0,
                   -Len(BLOCKQUOTE_EXPANDABLE_END_DELIM))
        ELSE WithoutQuotePrefix(lines[n])])

\* C21: the expandable quote block.  For a text that is one block of lines,
\* the first beginning with "^^" and the last ending with "!^^",
\* MarkdownV2.parse returns exactly one Blockquote, with collapsed = true,
\* over the quoted text: the lines without the two markers and without a
\* leading ">>", joined by line breaks; a line between the markers that does
\* not begin with ">>" is kept character for character.
C21_ExpandableBlock ==
    (V2Parsed /\ IsExpandableBlock(splitlines(arg.markup))) =>
        LET quoted == ExpandableText(splitlines(arg.markup))
        IN  /\ ret.text = quoted
            /\ ret.entities = <<MessageEntityBlockquote(0, Len(quoted), TRUE)>>


\* The span of e lies inside the span of f.
SpanInside(e, f) == f.offset <= e.offset /\ EndOf(e) <= EndOf(f)

\* C22: no entity inside Code or Pre from the HTML parser.  When
\* HTMLParser.parse returns, no entity of the result has its span fully
\* inside the span of a Code or Pre entity of the same result: the markup
\* "<code><b>x</b></code>" gives no Bold inside the Code.
C22_NothingInsideFixedWidth ==
    (pc = "html_parsed" /\ arg.call = "html_parse") =>
        \A m, n \in 1..Len(ret.entities) :
            (m # n /\ ret.entities[m].kind \in {"Code", "Pre"})
                => ~SpanInside(ret.entities[n], ret.entities[m])


-----------------------------------------------------------------------------
(* Claims about the scan of markdown.parse                                 *)

\* The scan is at a delimiter that does not occur again from i + len(d) + 1.
UnmatchedAtCursor ==
    /\ pc = "md_scan" /\ i < Len(message)
    /\ LET k == delim_re_match(message, i)
       IN  /\ k # 0
           /\ Find(message, DEFAULT_DELIMITERS[k].delim,
                   i + Len(DEFAULT_DELIMITERS[k].delim) + 1) = -1

\* The inputs that are one delimiter, or one delimiter twice.
LoneDelimiters == Delims \cup {d \o d : d \in Delims}

\* C23: unmatched Markdown delimiters stay literal.  A scan step of
\* markdown.parse at a delimiter d that has no further occurrence from
\* i + len(d) + 1 on changes neither the text nor the recorded entities and
\* moves the cursor by exactly one unit; and an input that is only d, or only
\* the empty pair d d (as "****"), is returned unchanged, with no entities
\* and without raising.
C23_UnmatchedStaysLiteral ==
    [][/\ UnmatchedAtCursor =>
             (message' = message /\ result' = result /\ i' = i + 1)
       /\ (pc' \in {"md_parsed", "md_raised"} /\ arg'.call = "md_parse"
             /\ arg'.markup \in LoneDelimiters) =>
             (/\ pc' = "md_parsed"
              /\ ret'.raised = ""
              /\ ret'.text = arg'.markup
              /\ ret'.entities = <<>>)]_vars

\* markdown.parse("****") has scanned over the four "*" and returned.
C23_Witness ==
    /\ pc = "md_parsed" /\ arg.call = "md_parse"
    /\ arg.markup = <<"*", "*", "*", "*">>
    /\ i = 4 /\ message = arg.markup /\ result = <<>>
    /\ ret.text = arg.markup /\ ret.entities = <<>>


-----------------------------------------------------------------------------
(* Claims about the offset-space conversions                               *)

\* The positions of text that hold the unit u.
PositionsOf(text, u) == {n \in 1..Len(text) : text[n] = u}

\* C24: the offset-space conversion round trip.  For a well-formed string t,
\* Vars.add_surrogates(t) has one unit for every codepoint below 0x10000 and
\* two, a high surrogate followed by a low one, for every codepoint from
\* 0x10000 on, and Vars.remove_surrogates of it is t again.
C24_SurrogateRoundTrip ==
    /\ pc = "surrogates_added" =>
          /\ Len(ret.text) = Len(arg.text)
                                + Cardinality(PositionsOf(arg.text, ASTRAL))
          /\ Cardinality(PositionsOf(ret.text, HI))
                = Cardinality(PositionsOf(arg.text, ASTRAL))
          /\ \A n \in 1..Len(ret.text) :
                /\ ret.text[n] # ASTRAL
                /\ ret.text[n] = HI => (n < Len(ret.text) /\ ret.text[n + 1] = LO)
                /\ ret.text[n] = LO => (n > 1 /\ ret.text[n - 1] = HI)
    /\ pc = "surrogates_removed" => (ret.raised = "" /\ ret.text = arg.text)

\* "a", an astral codepoint and "<" went through both conversions.
C24_Witness ==
    /\ pc = "surrogates_removed"
    /\ arg.text = <<"a", ASTRAL, "<">>
    /\ ret.text = arg.text


-----------------------------------------------------------------------------
(* Claims about the insertions of markdown.unparse                         *)

\* Every entity lies within the text, counted in UTF-16 units.
InBounds(text, entities) ==
    \A n \in 1..Len(entities) :
        /\ entities[n].offset >= 0
        /\ entities[n].length >= 0
        /\ ~OutOfRange(entities[n], Len(add_surrogate(text)))

\* The tokens of the sorted requests whose position, moved out of a
\* surrogate pair, is p; in the order of the requests.
TokensAt(text, insert_at, p) ==
    Concat([n \in 1..Len(insert_at) |->
               IF nudge(text, insert_at[n][1]) = p THEN insert_at[n][3]
               ELSE <<>>])

\* The text with every token written before the unit of its position, and
\* every unit of the text once, in its place.
WithTokens(text, insert_at) ==
    Concat([p \in 1..(Len(text) + 1) |->
               TokensAt(text, insert_at, p - 1)
               \o (IF p <= Len(text) THEN <<text[p]>> ELSE <<>>)])

\* C25: markdown.unparse only inserts.  When markdown.unparse is given a
\* text and entities that lie within it, the result is the text with the
\* tokens of the entities written at their positions: taking the tokens out
\* gives the text back, no unit of the text is removed, doubled or moved,
\* and the result is as long as the text and the tokens together.  A token
\* stands at the position its entity names, whatever was inserted before it.
C25_UnparseOnlyInserts ==
    (/\ pc = "md_unparsed"
     /\ arg.text # <<>> /\ arg.entities # <<>>
     /\ InBounds(arg.text, arg.entities)) =>
        LET text == add_surrogate(arg.text)
            insert_at == sort_insertions(collect_insertions(arg.entities, 0))
        IN  /\ ret.raised = ""
            /\ ret.text = del_surrogate(WithTokens(text, insert_at))
            /\ Len(ret.text)
                  = Len(arg.text) + Len(Concat([n \in 1..Len(insert_at) |->
                                                   insert_at[n][3]]))

\* "a" + astral with a Bold that ends inside the pair and a link over the
\* pair: four tokens, two of them moved out of the pair.
C25_Witness ==
    /\ pc = "md_unparsed" /\ arg.call = "md_unparse"
    /\ arg.text = <<"a", ASTRAL>>
    /\ arg.entities = <<Entity("Bold", 0, 2), MessageEntityTextUrl(1, 2, <<"u">>)>>
    /\ ret.raised = ""
    /\ Len(ret.text) = 11

\* C26: the scan of markdown.parse terminates.  In every state the scan
\* loop can be in, the iteration that comes next either moves the cursor i
\* forward or shortens the text without moving i back, so len(message) - i,
\* which is positive while the loop runs, gets smaller with every iteration:
\* also for a link with an empty label and for a delimiter found where
\* another one was just removed.
C26_ScanTerminates ==
    (pc = "md_scan" /\ i < Len(message)) =>
        LET st == scan_step(scan_state)
        IN  /\ st.i >= i
            /\ st.i > i \/ Len(st.message) < Len(message)
            /\ Len(st.message) - st.i < Len(message) - i

\* The scan of "**__a__**" has removed the "**" pair and is at the "__" at
\* the same cursor position, or the scan of "[](u)" has removed the link and
\* not moved.
C26_Witness ==
    /\ pc = "md_scan" /\ arg.call = "md_parse"
    /\ i = 0 /\ Len(result) = 1
    /\ \/ /\ arg.markup = <<"*", "*", "_", "_", "a", "_", "_", "*", "*">>
          /\ message = <<"_", "_", "a", "_", "_">>
       \/ /\ arg.markup = <<"[", "]", "(", "u", ")">>
          /\ message = <<>>


-----------------------------------------------------------------------------
(* sessions/asqlite.py: AsyncSQLite and the sessions table.  A row is a    *)
(* tuple in the order of the table's columns: dc_id, server_address, port, *)
(* auth_key, takeout_id, tmp_auth_key.  Python's None and SQL's null are   *)
(* tagged by their type; a blob is a sequence of bytes.                    *)

\* crypto.AuthKey(data=...): the key it was made from
AuthKey(data) == [t |-> "AuthKey", v |-> data.v]

\* "x.key if x else b''" for a field that holds None or an AuthKey; an
\* AuthKey without a key counts as false.
key_or_empty(x) == IF x.t = "AuthKey" THEN bytes(x.v) ELSE bytes(<<>>)

\* The values _update_session_table inserts, in the order of the statement.
session_row(s) ==
    << s.dc_id, s.server_address, s.port, key_or_empty(s.auth_key),
       s.takeout_id,
       IF s.store_tmp_auth_key_on_disk THEN key_or_empty(s.tmp_auth_key)
       ELSE bytes(<<>>) >>

\* _update_session_table: "delete from sessions", then the insert.
update_session_table(s, db) == [db EXCEPT !.sessions = <<session_row(s)>>]

\* _initiate, when the tables exist: "select * from sessions" is unpacked
\* into dc_id, server_address, port, key, tmp_key, takeout_id.
read_sessions(s, db) ==
    IF db.sessions = <<>> THEN s
    ELSE LET tuple_ == db.sessions[1]
         IN  [s EXCEPT !.dc_id = tuple_[1],
                       !.server_address = tuple_[2],
                       !.port = tuple_[3],
                       !.auth_key = AuthKey(tuple_[4]),
                       !.tmp_auth_key = AuthKey(tuple_[5]),
                       !.takeout_id = tuple_[6]]

\* _initiate: the session and the database after it.
initiate(s, db) ==
    IF db.tables THEN [session |-> read_sessions(s, db), database |-> db]
    ELSE [session |-> s,
          database |-> update_session_table(s, [db EXCEPT !.tables = TRUE])]

\* set_dc(dc_id, server_address, port): the fields are set and saved, then
\* the two keys are read back from the row.
set_dc(s, db, dc_id, server_address, port) ==
    LET s1 == [s EXCEPT !.dc_id = dc_id, !.server_address = server_address,
                        !.port = port]
        db1 == update_session_table(s1, db)
        row == <<db1.sessions[1][4], db1.sessions[1][6]>>
        s2 == [s1 EXCEPT !.auth_key = IF row[1].v # <<>> THEN AuthKey(row[1])
                                      ELSE None_]
        s3 == [s2 EXCEPT !.tmp_auth_key = IF row[2].v # <<>>
                                          THEN AuthKey(row[2]) ELSE None_]
    IN  [session |-> s3, database |-> update_session_table(s3, db1)]

\* The values the calls are given.
DcIds == {0, 2, 4}
ServerAddresses == {"None", "a"}
Ports == {None_, integer(443)}
AuthKeys == {None_, AuthKey(bytes(<<1>>)), AuthKey(bytes(<<2>>))}
TakeoutIds == {None_, integer(5)}

\* The session is open and no call is running.
SessionOpen ==
    pc \in {"session_open", "session_saved", "session_reopened",
            "username_looked_up"}

\* AsyncSQLite(filename, store_tmp_auth_key_on_disk) and _initiate() on a
\* file that does not exist.
session_create ==
    /\ pc = "idle" /\ ~database.tables
    /\ \E store \in BOOLEAN :
          \E r \in {initiate(NewSession(store), database)} :
             /\ session' = r.session
             /\ database' = r.database
             /\ arg' = [call |-> "_initiate", store |-> store]
    /\ pc' = "session_saved"
    /\ UNCHANGED <<message, i, result, hp, ret, reader, client>>

\* await session.set_dc(dc_id, server_address, port)
session_set_dc ==
    /\ SessionOpen
    /\ \E d \in DcIds, a \in ServerAddresses, p \in Ports :
          \E r \in {set_dc(session, database, d, a, p)} :
             /\ session' = r.session
             /\ database' = r.database
             /\ arg' = [call |-> "set_dc", dc_id |-> d, server_address |-> a,
                        port |-> p]
    /\ pc' = "session_open"
    /\ UNCHANGED <<message, i, result, hp, ret, reader, client>>

\* session.auth_key = value
session_set_auth_key ==
    /\ SessionOpen
    /\ \E v \in AuthKeys :
          /\ session' = [session EXCEPT !.auth_key = v]
          /\ arg' = [call |-> "auth_key", value |-> v]
    /\ pc' = "session_open"
    /\ UNCHANGED <<message, i, result, hp, ret, database, reader, client>>

\* session.tmp_auth_key = value
session_set_tmp_auth_key ==
    /\ SessionOpen
    /\ \E v \in AuthKeys :
          /\ session' = [session EXCEPT !.tmp_auth_key = v]
          /\ arg' = [call |-> "tmp_auth_key", value |-> v]
    /\ pc' = "session_open"
    /\ UNCHANGED <<message, i, result, hp, ret, database, reader, client>>

\* session.takeout_id = value
session_set_takeout_id ==
    /\ SessionOpen
    /\ \E v \in TakeoutIds :
          /\ session' = [session EXCEPT !.takeout_id = v]
          /\ arg' = [call |-> "takeout_id", value |-> v]
    /\ pc' = "session_open"
    /\ UNCHANGED <<message, i, result, hp, ret, database, reader, client>>

\* await session._update_session_table()
session_update_session_table ==
    /\ pc = "session_open"
    /\ database' = update_session_table(session, database)
    /\ arg' = [call |-> "_update_session_table"]
    /\ pc' = "session_saved"
    /\ UNCHANGED <<message, i, result, hp, ret, session, reader, client>>

\* The saved session is closed, and a new AsyncSQLite for the same file
\* runs _initiate(); arg keeps the instance that was saved.
session_reopen ==
    /\ pc = "session_saved"
    /\ \E r \in {initiate(NewSession(session.store_tmp_auth_key_on_disk),
                          database)} :
          /\ session' = r.session
          /\ database' = r.database
    /\ arg' = [call |-> "reopen", saved |-> session]
    /\ pc' = "session_reopened"
    /\ UNCHANGED <<message, i, result, hp, ret, reader, client>>

NextSession ==
    \/ session_create
    \/ session_set_dc
    \/ session_set_auth_key
    \/ session_set_tmp_auth_key
    \/ session_set_takeout_id
    \/ session_update_session_table
    \/ session_reopen

SpecSession == Init /\ [][NextSession]_vars

\* C27: session values survive a save and a reopen.  After set_dc and
\* setter calls followed by _update_session_table, _initiate on the same
\* file gives dc_id, server_address, port, auth_key, takeout_id and
\* tmp_auth_key each the value that was saved: takeout_id the value of the
\* takeout_id column, tmp_auth_key the key of the tmp_auth_key column.
C27_SessionSurvivesReopen ==
    pc = "session_reopened" =>
        /\ session.dc_id = arg.saved.dc_id
        /\ session.server_address = arg.saved.server_address
        /\ session.port = arg.saved.port
        /\ key_or_empty(session.auth_key) = key_or_empty(arg.saved.auth_key)
        /\ session.takeout_id = arg.saved.takeout_id
        /\ session.takeout_id = database.sessions[1][5]
        /\ key_or_empty(session.tmp_auth_key) = database.sessions[1][6]


-----------------------------------------------------------------------------
(* sessions/asqlite.py: the entities table.  A row keeps the columns the   *)
(* username lookup reads or writes: id (the primary key), hash, username   *)
(* ("None" for null) and date (None_ for null).                            *)

EntityIds == {1, 2, 3}
EntityHashes == {10, 20}
Usernames == {"u", "v"}
EntityDates == {None_, integer(0), integer(1)}

\* "t[2] or 0", the key the results are sorted by
date_or_0(t) == IF t.date.t = "int" THEN t.date.v[1] ELSE 0

\* list.sort(key=...): stable, ascending
RECURSIVE sort_by_date(_)
sort_by_date(results) ==
    IF results = <<>> THEN <<>>
    ELSE LET n == Len(results)
             t == results[n]
             front == sort_by_date(SubSeq(results, 1, n - 1))
             keep == {k \in 0..Len(front) :
                        \A j \in 1..k : date_or_0(front[j]) <= date_or_0(t)}
             at == CHOOSE k \in keep : \A m \in keep : m <= k
         IN  SubSeq(front, 1, at) \o <<t>> \o SubSeq(front, at + 1, Len(front))

\* The orders in which a select can return a set of rows.
Orders(rows) ==
    {s \in [1..Cardinality(rows) -> rows] :
        \A a, b \in 1..Cardinality(rows) : a # b => s[a] # s[b]}

\* "update entities set username = null where id = ?" for each of ids
set_username_null(entities, ids) ==
    {IF r.id \in ids THEN [r EXCEPT !.username = "None"] ELSE r :
        r \in entities}

\* get_entity_rows_by_username evicting the oldest row only
get_entity_rows_by_username_oldest_only(db, fetched) ==
    IF Len(fetched) = 0
    THEN [value |-> [none |-> TRUE, id |-> 0, hash |-> 0], database |-> db]
    ELSE LET results == IF Len(fetched) > 1 THEN sort_by_date(fetched)
                        ELSE fetched
             n == Len(results)
             evicted == IF Len(fetched) > 1 THEN {results[1].id} ELSE {}
         IN  [value |-> [none |-> FALSE, id |-> results[n].id,
                         hash |-> results[n].hash],
              database |-> [db EXCEPT !.entities =
                                set_username_null(db.entities, evicted)]]

\* get_entity_rows_by_username, given the rows its select returned: the
\* value returned and the table after the call.
get_entity_rows_by_username(db, fetched) ==
    IF Len(fetched) = 0
    THEN [value |-> [none |-> TRUE, id |-> 0, hash |-> 0], database |-> db]
    ELSE LET results == IF Len(fetched) > 1 THEN sort_by_date(fetched)
                        ELSE fetched
             n == Len(results)
             evicted == IF Len(fetched) > 1
                        THEN {results[k].id : k \in 1..(n - 1)} ELSE {}
         IN  [value |-> [none |-> FALSE, id |-> results[n].id,
                         hash |-> results[n].hash],
              database |-> [db EXCEPT !.entities =
                                set_username_null(db.entities, evicted)]]

\* "insert or replace into entities values (...)" of process_entities: a
\* row with the same id is replaced.
entities_insert_or_replace ==
    /\ SessionOpen
    /\ \E id \in EntityIds, hash \in EntityHashes,
          username \in Usernames \cup {"None"}, date \in EntityDates :
          LET row == [id |-> id, hash |-> hash, username |-> username,
                      date |-> date]
          IN  /\ database' = [database EXCEPT !.entities =
                      {r \in database.entities : r.id # id} \cup {row}]
              /\ arg' = [call |-> "process_entities"]
    /\ pc' = "session_open"
    /\ UNCHANGED <<message, i, result, hp, ret, session, reader, client>>

\* await session.get_entity_rows_by_username(username); arg keeps the
\* table as it was before the call.
session_get_entity_rows_by_username ==
    /\ SessionOpen
    /\ \E username \in Usernames :
          \E fetched \in Orders({r \in database.entities :
                                    r.username = username}) :
             \E r \in {get_entity_rows_by_username(database, fetched)} :
                /\ ret' = r.value
                /\ database' = r.database
                /\ arg' = [call |-> "get_entity_rows_by_username",
                           username |-> username,
                           entities |-> database.entities]
    /\ pc' = "username_looked_up"
    /\ UNCHANGED <<message, i, result, hp, session, reader, client>>

NextEntities ==
    \/ session_create
    \/ entities_insert_or_replace
    \/ session_get_entity_rows_by_username

SpecEntities == Init /\ [][NextEntities]_vars

\* The rows that had the username before the call.
HadUsername == {r \in arg.entities : r.username = arg.username}

-----------------------------------------------------------------------------
(* extensions/binaryreader.py: BinaryReader.  The stream is a sequence of  *)
(* bytes and the position counts from 0.  A 32-bit number is the sequence  *)
(* of its four bytes, most significant first: 0x1CB5C415 is                *)
(* <<28, 181, 196, 21>>.                                                   *)

boolTrue == <<153, 114, 117, 181>>
boolFalse == <<188, 121, 151, 55>>
Vector == <<28, 181, 196, 21>>

\* tl.alltlobjects.tlobjects: constructor id to class.  Of the generated
\* table the model keeps null#56730bcc, a class without fields.
tlobjects == {<<86, 115, 11, 204>>}

\* tl.core.core_objects: of the hand-written classes the model keeps one,
\* under the id of RpcResult.
core_objects == {<<243, 92, 109, 1>>}

\* Ids in no table and with no meaning of their own.
UnknownIds == {<<0, 0, 0, 0>>, <<0, 0, 0, 1>>, <<0, 0, 0, 2>>,
               <<222, 173, 190, 239>>}

\* struct.pack("<I", value)
pack_int(value) == <<value[4], value[3], value[2], value[1]>>

\* stream[position:]
remaining_bytes(r) == SubSeq(r.stream, r.position + 1, Len(r.stream))

\* seek that leaves the position where it is
seek_nowhere(r, offset) == r

\* seek(offset)
seek(r, offset) == [r EXCEPT !.position = @ + offset]

\* set_position(position)
set_position(r, position) == [r EXCEPT !.position = position]

\* read(): all the remaining bytes; the position moves to the end.
read(r) ==
    [result |-> remaining_bytes(r),
     reader |-> [r EXCEPT !.position = @ + Len(remaining_bytes(r))]]

\* read_int(signed=False): struct.unpack_from("<I") of the four bytes at
\* the position, which then moves by 4; struct.error, and no move, when
\* fewer than four are left.
read_int(r) ==
    IF r.position + 4 > Len(r.stream)
    THEN [raised |-> "struct.error", value |-> <<>>, reader |-> r]
    ELSE [raised |-> "",
          value |-> <<r.stream[r.position + 4], r.stream[r.position + 3],
                      r.stream[r.position + 2], r.stream[r.position + 1]>>,
          reader |-> [r EXCEPT !.position = @ + 4]]

\* The number read_int() gives for the same bytes when signed: a set top
\* bit makes it negative, and range() of it empty.
signed_count(value) ==
    IF value[1] >= 128 THEN 0
    ELSE ((value[1] * 256 + value[2]) * 256 + value[3]) * 256 + value[4]

\* clazz.from_reader(reader): the class of tlobjects has no fields, the
\* one of core_objects reads one int.
from_reader(constructor_id, r) ==
    IF constructor_id \in tlobjects
    THEN [raised |-> "", value |-> <<"Null">>, reader |-> r]
    ELSE LET n == read_int(r)
         IN  [raised |-> n.raised,
              value |-> IF n.raised = "" THEN <<"RpcResult">> ELSE <<>>,
              reader |-> n.reader]

NoError == [invalid_constructor_id |-> <<>>, remaining |-> <<>>]

RECURSIVE tgread_object(_)
RECURSIVE tgread_objects(_, _)

\* [self.tgread_object() for _ in range(count)]; the value is the repr of
\* the items read.
tgread_objects(r, count) ==
    IF count <= 0
    THEN [raised |-> "", value |-> <<>>, reader |-> r, error |-> NoError]
    ELSE LET first == tgread_object(r)
         IN  IF first.raised # "" THEN first
             ELSE LET rest == tgread_objects(first.reader, count - 1)
                  IN  IF rest.raised # "" THEN rest
                      ELSE [rest EXCEPT !.value = first.value \o @]

\* tgread_object(): what it raises, the repr of what it returns, the
\* reader after it, and the fields of the TypeNotFoundError.
tgread_object(r) ==
    LET id == read_int(r)
        constructor_id == id.value
    IN  IF id.raised # ""
        THEN [raised |-> id.raised, value |-> <<>>, reader |-> id.reader,
              error |-> NoError]
        ELSE IF constructor_id \in tlobjects
        THEN from_reader(constructor_id, id.reader) @@ [error |-> NoError]
        ELSE IF constructor_id = boolTrue
        THEN [raised |-> "", value |-> <<"True">>, reader |-> id.reader,
              error |-> NoError]
        ELSE IF constructor_id = boolFalse
        THEN [raised |-> "", value |-> <<"False">>, reader |-> id.reader,
              error |-> NoError]
        ELSE IF constructor_id = Vector
        THEN LET count == read_int(id.reader)
             IN  IF count.raised # ""
                 THEN [raised |-> count.raised, value |-> <<>>,
                       reader |-> count.reader, error |-> NoError]
                 ELSE LET items == tgread_objects(count.reader,
                                                  signed_count(count.value))
                      IN  IF items.raised # "" THEN items
                          ELSE [items EXCEPT
                                   !.value = <<"[">> \o @ \o <<"]">>]
        ELSE IF constructor_id \in core_objects
        THEN from_reader(constructor_id, id.reader) @@ [error |-> NoError]
        ELSE LET back == seek(id.reader, -4)
                 pos == back.position
                 rest == read(back)
             IN  [raised |-> "TypeNotFoundError", value |-> <<>>,
                  reader |-> set_position(rest.reader, pos),
                  error |-> [invalid_constructor_id |-> constructor_id,
                             remaining |-> rest.result]]

\* The streams readers are made over: up to MaxWords numbers and, after
\* them, possibly the first two bytes of another.
MaxWords == 3
StreamWords ==
    {pack_int(id) : id \in {boolTrue, boolFalse, Vector} \cup tlobjects
                           \cup core_objects \cup UnknownIds}
Streams ==
    {data \o tail : data \in Words(StreamWords, MaxWords),
                     tail \in {<<>>, <<181, 117>>}}

\* BinaryReader(data)
reader_new ==
    /\ pc = "idle"
    /\ \E data \in Streams : reader' = BinaryReader(data)
    /\ arg' = [call |-> "BinaryReader"]
    /\ pc' = "reader_ready"
    /\ UNCHANGED <<message, i, result, hp, ret, session, database, client>>

\* reader.read_int(signed=False), when four bytes are left
reader_read_int ==
    /\ pc \in {"reader_ready", "object_read"}
    /\ read_int(reader).raised = ""
    /\ reader' = read_int(reader).reader
    /\ arg' = [call |-> "read_int"]
    /\ pc' = "reader_ready"
    /\ UNCHANGED <<message, i, result, hp, ret, session, database, client>>

\* reader.tgread_object(); arg keeps the reader as it was before the call.
reader_tgread_object ==
    /\ pc \in {"reader_ready", "object_read"}
    /\ \E r \in {tgread_object(reader)} :
          /\ reader' = r.reader
          /\ ret' = [raised |-> r.raised, value |-> r.value,
                     error |-> r.error]
    /\ arg' = [call |-> "tgread_object", reader |-> reader]
    /\ pc' = "object_read"
    /\ UNCHANGED <<message, i, result, hp, session, database, client>>

NextReader ==
    \/ reader_new
    \/ reader_read_int
    \/ reader_tgread_object

SpecReader == Init /\ [][NextReader]_vars

\* The id is in neither table and is not boolTrue, boolFalse or Vector.
IsUnknownId(constructor_id) ==
    /\ constructor_id \notin tlobjects \cup core_objects
    /\ constructor_id \notin {boolTrue, boolFalse, Vector}

\* C29: the position is restored on an unknown constructor.  A call of
\* tgread_object whose first four bytes are an unknown id raises
\* TypeNotFoundError and leaves the position where it was before the call.
\* Whenever tgread_object raises TypeNotFoundError, the error carries the
\* unknown id and the bytes from the first byte of the id to the end, the
\* stream is as before, the position is at the first byte of the id, and
\* reading again from there raises the same error.
C29_PositionRestored ==
    pc = "object_read" =>
        /\ (/\ read_int(arg.reader).raised = ""
            /\ IsUnknownId(read_int(arg.reader).value)) =>
              /\ ret.raised = "TypeNotFoundError"
              /\ reader.position = arg.reader.position
        /\ ret.raised = "TypeNotFoundError" =>
              /\ reader.stream = arg.reader.stream
              /\ read_int(reader).raised = ""
              /\ read_int(reader).value = ret.error.invalid_constructor_id
              /\ IsUnknownId(ret.error.invalid_constructor_id)
              /\ ret.error.remaining = remaining_bytes(reader)
              /\ tgread_object(reader).reader = reader
              /\ tgread_object(reader).error = ret.error

\* An unknown id read in the middle of a stream, with bytes after it.
C29_Witness ==
    /\ pc = "object_read"
    /\ ret.raised = "TypeNotFoundError"
    /\ arg.reader.position = 4
    /\ reader.position = 4
    /\ Len(ret.error.remaining) > 4


-----------------------------------------------------------------------------
(* client/extras.py: ExtraMethods.transcribe.  client.calls holds the      *)
(* local variables of each call of transcribe, client.handlers the         *)
(* callbacks registered with client.on, in the order of registration; a    *)
(* handler is known by the call whose variables it closes over.            *)

MaxCalls == 2
TranscriptionIds == {1, 2}
Texts == {"a", "b"}

\* The UpdateTranscribedAudio updates the server can send.
Updates ==
    [transcription_id : TranscriptionIds, pending : BOOLEAN, text : Texts]

\* The body of handler(update) for call k: nothing when the update is of
\* another transcription or pending; otherwise the text is kept, the event
\* set and StopPropagation raised.
handler(calls, k, update) ==
    IF update.transcription_id # calls[k].transcription_id \/ update.pending
    THEN [calls |-> calls, raised |-> ""]
    ELSE [calls |-> [calls EXCEPT ![k].transcription_result = update.text,
                                  ![k].event = TRUE],
          raised |-> "StopPropagation"]

\* The client handing an update to its handlers from the n-th on, in the
\* order of registration, until one raises StopPropagation: the calls
\* after it and the handlers that raised.
RECURSIVE dispatch_update(_, _, _, _)
dispatch_update(handlers, n, calls, update) ==
    IF n > Len(handlers) THEN [calls |-> calls, stopped_by |-> {}]
    ELSE LET r == handler(calls, handlers[n], update)
         IN  IF r.raised = "StopPropagation"
             THEN [calls |-> r.calls, stopped_by |-> {handlers[n]}]
             ELSE dispatch_update(handlers, n + 1, r.calls, update)

ClientIdle ==
    pc \in {"idle", "transcribe_waiting", "update_dispatched",
            "transcribe_returned"}

\* transcribe(peer, message, timeout) up to its wait: the request is
\* answered with a transcription_id, the handler is registered, and the
\* call waits for the event.
transcribe_call ==
    /\ ClientIdle
    /\ Len(client.calls) < MaxCalls
    /\ \E id \in TranscriptionIds :
          /\ client' = [calls |-> Append(client.calls,
                                    [transcription_id |-> id,
                                     transcription_result |-> "None",
                                     event |-> FALSE,
                                     state |-> "waiting",
                                     returned |-> "None"]),
                        handlers |-> Append(client.handlers,
                                            Len(client.calls) + 1)]
          /\ arg' = [call |-> "transcribe", transcription_id |-> id]
    /\ pc' = "transcribe_waiting"
    /\ UNCHANGED <<message, i, result, hp, ret, session, database, reader>>

\* An UpdateTranscribedAudio arrives and is handed to the handlers; arg
\* keeps the calls as they were and the handler that took the update.
update_transcribed_audio ==
    /\ ClientIdle
    /\ client.handlers # <<>>
    /\ \E update \in Updates :
          \E r \in {dispatch_update(client.handlers, 1, client.calls,
                                    update)} :
             /\ client' = [client EXCEPT !.calls = r.calls]
             /\ arg' = [call |-> "update", update |-> update,
                        calls |-> client.calls,
                        stopped_by |-> r.stopped_by]
    /\ pc' = "update_dispatched"
    /\ UNCHANGED <<message, i, result, hp, ret, session, database, reader>>

\* The event was set within the timeout: transcribe returns the text.
transcribe_return ==
    /\ ClientIdle
    /\ \E k \in 1..Len(client.calls) :
          /\ client.calls[k].state = "waiting"
          /\ client.calls[k].event
          /\ client' = [client EXCEPT
                           !.calls[k].state = "returned",
                           !.calls[k].returned =
                               client.calls[k].transcription_result]
          /\ arg' = [call |-> "return", k |-> k]
    /\ pc' = "transcribe_returned"
    /\ UNCHANGED <<message, i, result, hp, ret, session, database, reader>>

\* wait_for times out: transcribe returns None.
transcribe_timeout ==
    /\ ClientIdle
    /\ \E k \in 1..Len(client.calls) :
          /\ client.calls[k].state = "waiting"
          /\ ~client.calls[k].event
          /\ client' = [client EXCEPT !.calls[k].state = "returned",
                                      !.calls[k].returned = "None"]
          /\ arg' = [call |-> "timeout", k |-> k]
    /\ pc' = "transcribe_returned"
    /\ UNCHANGED <<message, i, result, hp, ret, session, database, reader>>

NextClient ==
    \/ transcribe_call
    \/ update_transcribed_audio
    \/ transcribe_return
    \/ transcribe_timeout

SpecClient == Init /\ [][NextClient]_vars

\* C30: transcribe leaves no handler behind.  Once every call of
\* transcribe has returned, the handlers registered on the client are
\* those registered before the calls, that is none; and the handler that
\* takes an update belongs to a call that had not returned when the
\* update arrived.
C30_NoHandlerLeftBehind ==
    /\ (\A k \in 1..Len(client.calls) : client.calls[k].state = "returned")
          => client.handlers = <<>>
    /\ pc = "update_dispatched" =>
          \A k \in arg.stopped_by : arg.calls[k].state = "waiting"

====
